---- MODULE Spec2Model ----
(***************************************************************************)
(* A model of the RESTCONF reference examples of the courseware:           *)
(*   - RestconfAuthenticator  (examples/restconf/authentication.py)        *)
(*   - RestconfConfigurator and demonstrate_interface_lifecycle            *)
(*                            (examples/restconf/configuration.py)         *)
(* The HTTP transport (requests.Session) and the remote device are the     *)
(* environment: every call into the transport is one entry of a call log   *)
(* and its outcome (a response with a status, or an exception) is chosen   *)
(* nondeterministically.                                                   *)
(*                                                                         *)
(* Python's None is the empty tuple <<>>, a present value v is <<v>>.      *)
(* A return value is a tuple whose first element names its kind:           *)
(* <<"True">>, <<"False">>, <<"None">>, <<"raised", exc>>,                 *)
(* <<"response", r>>, <<"dict", d>>.                                       *)
(***************************************************************************)
EXTENDS Integers, Sequences, FiniteSets, TLC

\* ------------------------------------------------------------------ bounds
\* The wall clock runs from 0 to MaxTime seconds.
MaxTime == 2
\* The token endpoint declares expires_in between -1 and MaxExpiresIn seconds.
MaxExpiresIn == 1

\* --------------------------------------------------------------- constants
\* token_data.get('expires_in', 3600)
DEFAULT_EXPIRES_IN == 3600

None == <<>>
Some(v) == <<v>>

RetTrue == <<"True">>
RetFalse == <<"False">>
RetNone == <<"None">>
Raised(exc) == <<"raised", exc>>
NoResult == <<"no-call-yet">>

YANG_JSON == "application/yang-data+json"
PLAIN_JSON == "application/json"

\* f"{self.base_url}/..." for the resources the authenticator addresses
capabilities_url == "/restconf/data/ietf-restconf-monitoring:restconf-state/capabilities"
token_url == "/restconf/auth/token"
interfaces_url == "/restconf/data/ietf-interfaces:interfaces"
hostname_url == "/restconf/data/ietf-system:system/hostname"

\* ------------------------------------------------------------------ inputs
\* (username, password) pairs a caller passes
Credentials == {<<"admin", "password">>, <<"admin", "other">>}
\* the pair a caller exchanges for a token
TokenCredentials == {<<"admin", "password">>}
\* (cert_file, key_file) pairs a caller passes
CertPairs == {<<"/path/to/client.crt", "/path/to/client.key">>}
\* values of the 'token' field of a token response; None is a missing field
TokenValues == {None, Some(""), Some("tokA"), Some("tokB")}
ExpiresInValues == (0 - 1)..MaxExpiresIn
\* (method, url, json=) of the requests a caller dispatches
DispatchCalls ==
    {[method |-> "GET", url |-> interfaces_url, json |-> None],
     [method |-> "PUT", url |-> hostname_url, json |-> Some("payload")]}

\* What a call into the transport can produce: a response, or an exception.
\* exc = "RequestException" stands for every subclass of
\* requests.exceptions.RequestException raised by the transport.
Response(status) ==
    [kind |-> "response", status |-> status, exc |-> "",
     tok |-> None, expkind |-> "missing", expval |-> 0]
TransportError ==
    [kind |-> "exception", status |-> 0, exc |-> "RequestException",
     tok |-> None, expkind |-> "missing", expval |-> 0]
\* A 200 answer of the token endpoint with its JSON body
TokenResponse(tok, expkind, expval) ==
    [kind |-> "response", status |-> 200, exc |-> "",
     tok |-> tok, expkind |-> expkind, expval |-> expval]

\* 302 is a redirection without a Location header, which requests hands back
ProbeOutcomes == {Response(200), Response(302), Response(401), TransportError}
TokenOutcomes ==
    {Response(404), TransportError}
    \cup {TokenResponse(t, "missing", 0) : t \in TokenValues}
    \cup {TokenResponse(t, "int", e) : t \in TokenValues, e \in ExpiresInValues}
    \cup {TokenResponse(t, "nonnumeric", 0) : t \in TokenValues}
DispatchOutcomes == {Response(200), Response(404), TransportError}
\* the exception certificate_auth names for missing certificate files
FileNotFound ==
    [kind |-> "exception", status |-> 0, exc |-> "FileNotFoundError",
     tok |-> None, expkind |-> "missing", expval |-> 0]
\* what requests raises when cert_file or key_file does not exist
\* (HTTPAdapter.cert_verify): an OSError that is neither a FileNotFoundError
\* nor a RequestException
CertFileMissing ==
    [kind |-> "exception", status |-> 0, exc |-> "OSError",
     tok |-> None, expkind |-> "missing", expval |-> 0]
CertProbeOutcomes == ProbeOutcomes \cup {FileNotFound, CertFileMissing}
\* except FileNotFoundError / except requests.exceptions.RequestException
CaughtByCertificateAuth == {"FileNotFoundError", "RequestException"}

\* ------------------------------------------------------------------- state
VARIABLES
    token,          \* self.token
    token_expiry,   \* self.token_expiry
    session_auth,   \* self.session.auth
    session_cert,   \* self.session.cert
    headers,        \* self.session.headers (the three the code touches)
    now,            \* datetime.now(), in seconds
    mode,           \* the authenticate_* call that last returned True
    issued,         \* the token response last accepted, with its arrival time
    lastOp,         \* the operation that ran last
    lastArgs,       \* the arguments it was called with
    lastOutcome,    \* what the transport answered to it (None: not asked)
    result,         \* what it returned
    netcalls,       \* the calls it made into the transport, in order
    device,         \* the remote device's interface list: name -> config
    hostname,       \* the remote device's hostname
    before,         \* the device's interface list before the last operation
    pc,             \* demonstrate_interface_lifecycle: the step to run next
    reqlog,         \* the requests the demo has sent, in order
    answers,        \* what the transport answered to each of them
    reports,        \* the failures the demo has printed, by operation
    current_config, \* the demo's local current_config
    final_config,   \* the demo's local final_config
    device0,        \* the device's interface list when the demo started
    hostname0,      \* the device's hostname when the demo started
    original_hostname, \* demonstrate_transaction_safety: original_hostname
    interfaces,     \* basic_get.main: its local interfaces
    basic_credentials, \* the pairs the last two basic_auth calls were given
    printed,        \* the last line the operation printed ("" if none)
    python_version, \* sys.version_info[:2] of the interpreter running setup
    setup_pc,       \* setup_environment.main: the call it makes next
    steps,          \* the functions main has called, in order
    next_package,   \* the index of the package the running loop handles next
    success_count,  \* success_count of the running loop
    warnings,       \* the warnings main has printed
    outcomes,       \* what each function main called returned (or raised)
    exit_status,    \* the status the setup process ended with (None: running)
    demo,           \* the demonstrate_* function that is running
    demo_pc,        \* the call that function makes next
    calls,          \* the calls it has made on its client, with what they returned
    connection,     \* NetconfClient: self.connection
    sessions,       \* the NETCONF sessions opened so far: "open" or "closed"
    was_open        \* whether it was open before the last operation

authVars == <<token, token_expiry, session_auth, session_cert, headers, now,
              mode, issued, basic_credentials>>
callVars == <<lastOp, lastArgs, lastOutcome, result, netcalls, printed>>
devVars == <<device, hostname, before>>
lifeVars == <<pc, reqlog, answers, reports, current_config, final_config,
              device0, hostname0, original_hostname, interfaces>>

setupVars == <<python_version, setup_pc, steps, next_package, success_count,
               warnings, outcomes, exit_status>>

demoVars == <<demo, demo_pc, calls>>
netVars == <<connection, sessions, was_open>>

vars == <<authVars, callVars, devVars, lifeVars, setupVars, demoVars, netVars>>

\* ------------------------------------------------------- pure helper logic
\* Python truthiness of an optional string: None and "" are falsy
Truthy(opt) == opt # None /\ opt # Some("")

\* response.raise_for_status(): HTTPError for 4xx and 5xx
RaisesForStatus(status) == status >= 400 /\ status < 600

\* is_token_expired comparing with > : the expiry instant itself counts as valid
is_token_expired_strict(tok, expiry, t) ==
    IF ~Truthy(tok) \/ expiry = None THEN TRUE ELSE t > expiry[1]

\* is_token_expired without the check for an absent token
is_token_expired_noguard(tok, expiry, t) ==
    IF expiry = None THEN FALSE ELSE t >= expiry[1]

\* is_token_expired with a safety margin: expired from one second before expiry
is_token_expired_early(tok, expiry, t) ==
    IF ~Truthy(tok) \/ expiry = None THEN TRUE ELSE t + 1 >= expiry[1]

\* RestconfAuthenticator.is_token_expired
is_token_expired(tok, expiry, t) ==
    IF ~Truthy(tok) \/ expiry = None THEN TRUE ELSE t >= expiry[1]

\* The request the session sends: session defaults merged with per-call ones
SessionRequest(method, url, hdrs, payload) ==
    [method |-> method, url |-> url, auth |-> session_auth,
     cert |-> session_cert, headers |-> hdrs, json |-> payload]

StandardHeaders(h) ==
    [h EXCEPT !.Accept = Some(YANG_JSON), !.ContentType = Some(YANG_JSON)]

\* ------------------------------------------------------------------- Init
AuthInit ==
    /\ token = None
    /\ token_expiry = None
    /\ session_auth = None
    /\ session_cert = None
    /\ headers = [Authorization |-> None, Accept |-> None, ContentType |-> None]
    /\ now = 0
    /\ mode = "none"
    /\ issued = None
    /\ basic_credentials = <<None, None>>

\* ----------------------------------------------------------------- actions
\* basic_auth installing the credentials only once the probe has succeeded
basic_auth_verified_first(cred, o) ==
    LET h == StandardHeaders(headers)
        ok == o.kind = "response" /\ ~RaisesForStatus(o.status)
    IN  /\ session_auth' = IF ok THEN cred ELSE session_auth
        /\ headers' = h
        /\ netcalls' = <<[method |-> "GET", url |-> capabilities_url,
                          auth |-> cred, cert |-> session_cert,
                          headers |-> h, json |-> None]>>
        /\ result' = IF ok THEN RetTrue ELSE RetFalse
        /\ printed' = IF ok THEN "Basic authentication successful"
                      ELSE "Basic authentication failed"
        /\ mode' = IF ok THEN "basic" ELSE mode
        /\ lastOp' = "basic_auth"
        /\ lastArgs' = cred
        /\ lastOutcome' = Some(o)
        /\ UNCHANGED <<token, token_expiry, session_cert, now, issued>>
        /\ UNCHANGED <<devVars, lifeVars, setupVars, netVars>>

\* RestconfAuthenticator.basic_auth(username, password)
basic_auth(cred, o) ==
    LET h == StandardHeaders(headers)
        ok == o.kind = "response" /\ ~RaisesForStatus(o.status)
    IN  /\ session_auth' = cred
        /\ headers' = h
        /\ netcalls' = <<[method |-> "GET", url |-> capabilities_url,
                          auth |-> cred, cert |-> session_cert,
                          headers |-> h, json |-> None]>>
        /\ result' = IF ok THEN RetTrue ELSE RetFalse
        /\ printed' = IF ok THEN "Basic authentication successful"
                      ELSE "Basic authentication failed"
        /\ mode' = IF ok THEN "basic" ELSE mode
        /\ lastOp' = "basic_auth"
        /\ lastArgs' = cred
        /\ lastOutcome' = Some(o)
        /\ UNCHANGED <<token, token_expiry, session_cert, now, issued>>
        /\ UNCHANGED <<devVars, lifeVars, setupVars, netVars>>

\* token_auth dropping the token it holds when the acquisition fails
token_auth_body_forgetting(cred, o) ==
    LET req == [method |-> "POST", url |-> token_url, auth |-> session_auth,
                cert |-> session_cert,
                headers |-> [headers EXCEPT !.ContentType = Some(PLAIN_JSON)],
                json |-> Some([username |-> cred[1], password |-> cred[2]])]
    IN  /\ netcalls' = <<req>>
        /\ lastArgs' = cred
        /\ lastOutcome' = Some(o)
        /\ UNCHANGED <<session_auth, session_cert, now, basic_credentials>>
        /\ UNCHANGED <<devVars, lifeVars, setupVars, netVars>>
        /\ IF o.kind = "exception" \/ o.status # 200
           THEN /\ result' = RetFalse
                /\ printed' = "Token authentication failed"
                /\ token' = None
                /\ token_expiry' = None
                /\ UNCHANGED <<headers, mode, issued>>
           ELSE IF o.expkind = "nonnumeric"
           THEN /\ token' = o.tok
                /\ result' = Raised("TypeError")
                /\ printed' = ""
                /\ UNCHANGED <<token_expiry, headers, mode, issued>>
           ELSE LET expires_in == IF o.expkind = "missing"
                                  THEN DEFAULT_EXPIRES_IN ELSE o.expval
                IN  /\ token' = o.tok
                    /\ token_expiry' = Some(now + expires_in)
                    /\ headers' = [StandardHeaders(headers) EXCEPT
                                     !.Authorization = Some(<<"Bearer", o.tok>>)]
                    /\ result' = RetTrue
                    /\ printed' = "Token expires at"
                    /\ mode' = "token"
                    /\ issued' = Some([tok |-> o.tok, at |-> now,
                                       expires_in |-> expires_in])

\* The body of RestconfAuthenticator.token_auth(username, password); o is the
\* token endpoint's answer to the POST
token_auth_body(cred, o) ==
    LET req == [method |-> "POST", url |-> token_url, auth |-> session_auth,
                cert |-> session_cert,
                headers |-> [headers EXCEPT !.ContentType = Some(PLAIN_JSON)],
                json |-> Some([username |-> cred[1], password |-> cred[2]])]
    IN  /\ netcalls' = <<req>>
        /\ lastArgs' = cred
        /\ lastOutcome' = Some(o)
        /\ UNCHANGED <<session_auth, session_cert, now, basic_credentials>>
        /\ UNCHANGED <<devVars, lifeVars, setupVars, netVars>>
        /\ IF o.kind = "exception"
           THEN \* except requests.exceptions.RequestException
                /\ result' = RetFalse
                /\ printed' = "Note: Token authentication may not be supported"
                /\ UNCHANGED <<token, token_expiry, headers, mode, issued>>
           ELSE IF o.status # 200
           THEN \* the else branch of status_code == 200
                /\ result' = RetFalse
                /\ printed' = "Token authentication failed: HTTP"
                /\ UNCHANGED <<token, token_expiry, headers, mode, issued>>
           ELSE IF o.expkind = "nonnumeric"
           THEN \* self.token is assigned, then timedelta(seconds=...) raises
                /\ token' = o.tok
                /\ result' = Raised("TypeError")
                /\ printed' = ""
                /\ UNCHANGED <<token_expiry, headers, mode, issued>>
           ELSE LET expires_in == IF o.expkind = "missing"
                                  THEN DEFAULT_EXPIRES_IN ELSE o.expval
                IN  /\ token' = o.tok
                    /\ token_expiry' = Some(now + expires_in)
                    /\ headers' = [StandardHeaders(headers) EXCEPT
                                     !.Authorization = Some(<<"Bearer", o.tok>>)]
                    /\ result' = RetTrue
                    /\ printed' = "Token expires at"
                    /\ mode' = "token"
                    /\ issued' = Some([tok |-> o.tok, at |-> now,
                                       expires_in |-> expires_in])

token_auth(cred, o) ==
    /\ token_auth_body(cred, o)
    /\ lastOp' = "token_auth"

\* RestconfAuthenticator.certificate_auth(cert_file, key_file)
certificate_auth(cp, o) ==
    LET h == StandardHeaders(headers)
        ok == o.kind = "response" /\ ~RaisesForStatus(o.status)
    IN  /\ session_cert' = cp
        /\ headers' = h
        /\ netcalls' = <<[method |-> "GET", url |-> capabilities_url,
                          auth |-> session_auth, cert |-> cp,
                          headers |-> h, json |-> None]>>
        /\ result' = IF ok THEN RetTrue
                     ELSE IF o.kind = "exception" /\ o.exc \notin CaughtByCertificateAuth
                     THEN Raised(o.exc)
                     ELSE RetFalse
        /\ printed' = IF ok THEN "Certificate authentication successful"
                      ELSE IF o.kind = "response" \/ o.exc = "RequestException"
                      THEN "Certificate authentication failed"
                      ELSE IF o.exc = "FileNotFoundError"
                      THEN "Certificate files not found"
                      ELSE ""
        /\ mode' = IF ok THEN "certificate" ELSE mode
        /\ lastOp' = "certificate_auth"
        /\ lastArgs' = cp
        /\ lastOutcome' = Some(o)
        /\ UNCHANGED <<token, token_expiry, session_auth, now, issued,
                       basic_credentials>>
        /\ UNCHANGED <<devVars, lifeVars, setupVars, netVars>>

\* A caller asks is_token_expired()
call_is_token_expired ==
    /\ result' = IF is_token_expired(token, token_expiry, now)
                 THEN RetTrue ELSE RetFalse
    /\ netcalls' = <<>>
    /\ lastOp' = "is_token_expired"
    /\ lastArgs' = <<>>
    /\ lastOutcome' = None
    /\ printed' = ""
    /\ UNCHANGED <<authVars, devVars, lifeVars, setupVars, netVars>>

\* refresh_token without its expiry check: it always re-acquires
refresh_token_unconditional(cred, o) ==
    /\ lastOp' = "refresh_token"
    /\ token_auth_body(cred, o)

\* RestconfAuthenticator.refresh_token(username, password)
refresh_token(cred, o) ==
    /\ lastOp' = "refresh_token"
    /\ IF is_token_expired(token, token_expiry, now)
       THEN token_auth_body(cred, o)
       ELSE /\ result' = RetTrue
            /\ netcalls' = <<>>
            /\ lastArgs' = cred
            /\ lastOutcome' = None
            /\ printed' = ""
            /\ UNCHANGED <<authVars, devVars, lifeVars, setupVars, netVars>>

\* RestconfAuthenticator.make_authenticated_request(method, url, **kwargs)
make_authenticated_request(method, url, payload, o) ==
    /\ lastOp' = "make_authenticated_request"
    /\ lastArgs' = <<method, url, payload>>
    /\ IF Truthy(token) /\ is_token_expired(token, token_expiry, now)
       THEN /\ result' = RetNone
            /\ netcalls' = <<>>
            /\ lastOutcome' = None
            /\ printed' = "Token expired during request, please re-authenticate"
       ELSE /\ netcalls' = <<SessionRequest(method, url, headers, payload)>>
            /\ lastOutcome' = Some(o)
            /\ result' = IF o.kind = "response"
                         THEN <<"response", o>> ELSE Raised(o.exc)
            /\ printed' = ""
    /\ UNCHANGED <<authVars, devVars, lifeVars, setupVars, netVars>>

\* One second of wall-clock time passes between two operations
Tick ==
    /\ now < MaxTime
    /\ now' = now + 1
    /\ lastOp' = "tick"
    /\ lastArgs' = <<>>
    /\ lastOutcome' = None
    /\ result' = NoResult
    /\ netcalls' = <<>>
    /\ printed' = ""
    /\ UNCHANGED <<token, token_expiry, session_auth, session_cert, headers,
                   mode, issued, basic_credentials>>
    /\ UNCHANGED <<devVars, lifeVars, setupVars, netVars>>

\* the operations other than basic_auth
OtherAuthOperations ==
    \/ \E c \in TokenCredentials, o \in TokenOutcomes :
          token_auth(c, o) /\ UNCHANGED demoVars
    \/ \E cp \in CertPairs, o \in CertProbeOutcomes :
          certificate_auth(cp, o) /\ UNCHANGED demoVars
    \/ call_is_token_expired /\ UNCHANGED demoVars
    \/ \E c \in TokenCredentials, o \in TokenOutcomes :
          refresh_token(c, o) /\ UNCHANGED demoVars
    \/ \E c \in DispatchCalls, o \in DispatchOutcomes :
          make_authenticated_request(c.method, c.url, c.json, o)
             /\ UNCHANGED demoVars
    \/ Tick /\ UNCHANGED demoVars

AuthNext ==
    \/ \E c \in Credentials, o \in ProbeOutcomes :
          basic_auth(c, o) /\ UNCHANGED <<basic_credentials, demoVars>>
    \/ OtherAuthOperations

\* ======================================================= RESTCONF device
\* An interface name is a sequence of pieces of text; "/" and "%" are the
\* characters a URL reserves, every other piece holds unreserved characters.
test_interface == <<"Loopback100">>
slash_interface == <<"GigabitEthernet1", "/", "0", "/", "1">>
DeviceNames == {test_interface, slash_interface}

INTERFACE_KEY == "ietf-interfaces:interface"
HOSTNAME_KEY == "ietf-system:hostname"
IPV4_KEY == "ietf-ip:ipv4"

\* requests.utils.quote(name, safe='/'): quote's default, which keeps "/"
quote_default_safe(name) ==
    [i \in DOMAIN name |-> IF name[i] = "%" THEN "%25" ELSE name[i]]

\* requests.utils.quote(interface_name, safe='')
quote(name) ==
    [i \in DOMAIN name |->
        IF name[i] = "/" THEN "%2F"
        ELSE IF name[i] = "%" THEN "%25"
        ELSE name[i]]

\* the device decodes a percent-encoded key
unquote(key) ==
    [i \in DOMAIN key |->
        IF key[i] = "%2F" THEN "/"
        ELSE IF key[i] = "%25" THEN "%"
        ELSE key[i]]

\* f"{self.base_url}/data/ietf-interfaces:interfaces/interface={encoded_name}"
ItemUrl(encoded_name) == <<interfaces_url, "/interface=">> \o encoded_name
CollectionUrl == <<interfaces_url>>
HostnameUrl == <<hostname_url>>

\* PATCH: the fields of the update replace or extend those of the resource
Merge(cfg, upd) ==
    [k \in DOMAIN cfg \cup DOMAIN upd |->
        IF k \in DOMAIN upd THEN upd[k] ELSE cfg[k]]

Reply(status, body, dev, hn) ==
    [status |-> status, body |-> body, device |-> dev, hostname |-> hn]

\* What the device does with a request that reaches it, and what it answers:
\* POST creates if absent (409 otherwise), PUT creates or replaces, PATCH
\* merges, DELETE removes, GET reads; a resource that is not there is a 404.
Serve(req, dev, hn) ==
    IF req.url = CollectionUrl THEN
        IF req.method = "POST" /\ req.json # None
              /\ INTERFACE_KEY \in DOMAIN req.json[1]
              /\ "name" \in DOMAIN req.json[1][INTERFACE_KEY]
              /\ req.json[1][INTERFACE_KEY].name \in DOMAIN dev
        THEN LET cfg == req.json[1][INTERFACE_KEY]
             IN  IF dev[cfg.name] # None
                 THEN Reply(409, None, dev, hn)
                 ELSE Reply(201, None, [dev EXCEPT ![cfg.name] = Some(cfg)], hn)
        ELSE Reply(400, None, dev, hn)
    ELSE IF req.url = HostnameUrl THEN
        IF req.method = "GET"
        THEN Reply(200, Some(HOSTNAME_KEY :> hn), dev, hn)
        ELSE IF req.method = "PUT" /\ req.json # None
                   /\ HOSTNAME_KEY \in DOMAIN req.json[1]
        THEN Reply(204, None, dev, req.json[1][HOSTNAME_KEY])
        ELSE Reply(400, None, dev, hn)
    ELSE IF Len(req.url) > 2 /\ SubSeq(req.url, 1, 2) = ItemUrl(<<>>) THEN
        LET key == SubSeq(req.url, 3, Len(req.url))
            name == unquote(key)
        IN  IF (\E i \in DOMAIN key : key[i] = "/") \/ name \notin DOMAIN dev
            THEN \* a raw "/" ends the key: the path names no resource
                 Reply(404, None, dev, hn)
            ELSE IF req.method = "PUT" /\ req.json # None
                       /\ INTERFACE_KEY \in DOMAIN req.json[1]
            THEN Reply(IF dev[name] = None THEN 201 ELSE 204, None,
                       [dev EXCEPT ![name] = Some(req.json[1][INTERFACE_KEY])],
                       hn)
            ELSE IF dev[name] = None THEN Reply(404, None, dev, hn)
            ELSE IF req.method = "GET"
            THEN Reply(200, Some(INTERFACE_KEY :> dev[name][1]), dev, hn)
            ELSE IF req.method = "PATCH" /\ req.json # None
                       /\ INTERFACE_KEY \in DOMAIN req.json[1]
            THEN Reply(204, None,
                       [dev EXCEPT ![name] =
                           Some(Merge(dev[name][1], req.json[1][INTERFACE_KEY]))],
                       hn)
            ELSE IF req.method = "DELETE"
            THEN Reply(204, None, [dev EXCEPT ![name] = None], hn)
            ELSE Reply(400, None, dev, hn)
    ELSE Reply(404, None, dev, hn)

\* What can happen to a request on its way: the device serves it; the device
\* refuses it with an error status and does nothing; the request never arrives
\* (an exception); the request is served but the answer is lost (an exception).
Faults == {"served", "refused", "unreachable", "lost"}
\* ... or something on the way answers with a redirection status that
\* carries no Location header, which requests hands back to the caller
WriteFaults == Faults \cup {"redirected"}

\* The answer the client sees and the state the device is left in
Transport(req, fault, dev, hn) ==
    LET r == Serve(req, dev, hn)
    IN  IF fault = "served"
        THEN [kind |-> "response", status |-> r.status, body |-> r.body,
              device |-> r.device, hostname |-> r.hostname]
        ELSE IF fault = "refused"
        THEN [kind |-> "response", status |-> 500, body |-> None,
              device |-> dev, hostname |-> hn]
        ELSE IF fault = "redirected"
        THEN [kind |-> "response", status |-> 302, body |-> None,
              device |-> dev, hostname |-> hn]
        ELSE IF fault = "lost"
        THEN [kind |-> "exception", status |-> 0, body |-> None,
              device |-> r.device, hostname |-> r.hostname]
        ELSE [kind |-> "exception", status |-> 0, body |-> None,
              device |-> dev, hostname |-> hn]

\* What the client keeps of an answer
Seen(a) == [kind |-> a.kind, status |-> a.status, body |-> a.body]

\* ================================================== RestconfConfigurator
\* try: ... response.raise_for_status() ... except RequestException:
\* the call failed when the transport raised or the status is 4xx/5xx
CallFailed(a) == a.kind = "exception" \/ RaisesForStatus(a.status)

\* RestconfConfigurator.get_interface_config(interface_name)
get_interface_config_request(interface_name) ==
    [method |-> "GET", url |-> ItemUrl(quote(interface_name)), json |-> None]

get_interface_config_result(a) ==
    IF CallFailed(a) THEN RetNone ELSE <<"dict", a.body[1]>>

\* create_interface_config without raise_for_status: any answer is a success
create_interface_config_result_unchecked(a) ==
    IF a.kind = "exception" THEN RetFalse ELSE RetTrue

\* RestconfConfigurator.create_interface_config(interface_config)
create_interface_config_request(interface_config) ==
    [method |-> "POST", url |-> CollectionUrl,
     json |-> Some(INTERFACE_KEY :> interface_config)]

create_interface_config_result(a) ==
    IF CallFailed(a) THEN RetFalse ELSE RetTrue

\* update_interface_config sending PUT instead of PATCH
update_interface_config_request_put(interface_name, config_updates) ==
    [method |-> "PUT", url |-> ItemUrl(quote(interface_name)),
     json |-> Some(INTERFACE_KEY :> config_updates)]

\* RestconfConfigurator.update_interface_config(interface_name, config_updates)
update_interface_config_request(interface_name, config_updates) ==
    [method |-> "PATCH", url |-> ItemUrl(quote(interface_name)),
     json |-> Some(INTERFACE_KEY :> config_updates)]

update_interface_config_result(a) ==
    IF CallFailed(a) THEN RetFalse ELSE RetTrue

\* RestconfConfigurator.replace_interface_config(interface_name, new_config)
replace_interface_config_request(interface_name, new_config) ==
    [method |-> "PUT", url |-> ItemUrl(quote(interface_name)),
     json |-> Some(INTERFACE_KEY :> new_config)]

replace_interface_config_result(a) ==
    IF CallFailed(a) THEN RetFalse ELSE RetTrue

\* RestconfConfigurator.delete_interface_config(interface_name)
delete_interface_config_request(interface_name) ==
    [method |-> "DELETE", url |-> ItemUrl(quote(interface_name)),
     json |-> None]

delete_interface_config_result(a) ==
    IF CallFailed(a) THEN RetFalse ELSE RetTrue

\* RestconfConfigurator.configure_hostname(hostname)
configure_hostname_request(new_hostname) ==
    [method |-> "PUT", url |-> HostnameUrl,
     json |-> Some(HOSTNAME_KEY :> new_hostname)]

configure_hostname_result(a) ==
    IF CallFailed(a) THEN RetFalse ELSE RetTrue

\* ---------------------------------------------------------------- inputs
LOOPBACK_TYPE == "iana-if-type:softwareLoopback"

\* demonstrate_interface_lifecycle: interface_config, updates, ip_config
interface_config ==
    [name |-> test_interface,
     description |-> "Test loopback interface created via RESTCONF",
     type |-> LOOPBACK_TYPE,
     enabled |-> TRUE]
updates == [description |-> "Updated description via RESTCONF PATCH"]
ip_config ==
    (IPV4_KEY :> [address |-> <<[ip |-> "192.168.100.1",
                                 netmask |-> "255.255.255.255"]>>])

\* an interface somebody configured on the device before
ConfiguredBefore(name) ==
    [name |-> name, description |-> "configured before", type |-> LOOPBACK_TYPE,
     enabled |-> FALSE]

\* the configurations, updates and hostnames the callers of the model pass
CreateConfigs ==
    {interface_config,
     [name |-> slash_interface, description |-> "uplink",
      type |-> "iana-if-type:ethernetCsmacd", enabled |-> FALSE]}
UpdateConfigs == {updates, ip_config}
Hostnames == {"router1", "RESTCONF-TEST-DEVICE"}

\* the states a device can be in when a client first meets it
InitialDevices ==
    {[n \in DeviceNames |-> IF n \in present THEN Some(ConfiguredBefore(n))
                            ELSE None] : present \in SUBSET DeviceNames}

\* ------------------------------------------- the configurator, call by call
\* One call of a configurator method: it sends req, the transport answers
ConfiguratorCall(op, args, req, fault, ret) ==
    LET a == Transport(req, fault, device, hostname)
    IN  /\ lastOp' = op
        /\ lastArgs' = args
        /\ lastOutcome' = Some([fault |-> fault, answer |-> Seen(a)])
        /\ netcalls' = <<req>>
        /\ result' = ret
        /\ printed' = IF ret \in {RetFalse, RetNone} THEN "Error"
                      ELSE IF op = "get_interface_config" THEN ""
                      ELSE "successfully"
        /\ before' = device
        /\ device' = a.device
        /\ hostname' = a.hostname
        /\ UNCHANGED <<authVars, lifeVars, setupVars, demoVars, netVars>>

Answer(req, fault) == Transport(req, fault, device, hostname)

get_interface_config(interface_name, fault) ==
    LET req == get_interface_config_request(interface_name)
    IN  ConfiguratorCall("get_interface_config", <<interface_name>>, req, fault,
                         get_interface_config_result(Answer(req, fault)))

create_interface_config(cfg, fault) ==
    LET req == create_interface_config_request(cfg)
    IN  ConfiguratorCall("create_interface_config", <<cfg>>, req, fault,
                         create_interface_config_result(Answer(req, fault)))

update_interface_config(interface_name, upd, fault) ==
    LET req == update_interface_config_request(interface_name, upd)
    IN  ConfiguratorCall("update_interface_config", <<interface_name, upd>>,
                         req, fault,
                         update_interface_config_result(Answer(req, fault)))

replace_interface_config(interface_name, cfg, fault) ==
    LET req == replace_interface_config_request(interface_name, cfg)
    IN  ConfiguratorCall("replace_interface_config", <<interface_name, cfg>>,
                         req, fault,
                         replace_interface_config_result(Answer(req, fault)))

delete_interface_config(interface_name, fault) ==
    LET req == delete_interface_config_request(interface_name)
    IN  ConfiguratorCall("delete_interface_config", <<interface_name>>, req,
                         fault,
                         delete_interface_config_result(Answer(req, fault)))

configure_hostname(new_hostname, fault) ==
    LET req == configure_hostname_request(new_hostname)
    IN  ConfiguratorCall("configure_hostname", <<new_hostname>>, req, fault,
                         configure_hostname_result(Answer(req, fault)))

ConfigNext ==
    \/ \E n \in DeviceNames, f \in Faults : get_interface_config(n, f)
    \/ \E c \in CreateConfigs, f \in Faults : create_interface_config(c, f)
    \/ \E n \in DeviceNames, u \in UpdateConfigs, f \in Faults :
          update_interface_config(n, u, f)
    \/ \E c \in CreateConfigs, f \in Faults :
          replace_interface_config(c.name, c, f)
    \/ \E n \in DeviceNames, f \in Faults : delete_interface_config(n, f)
    \/ \E h \in Hostnames, f \in Faults : configure_hostname(h, f)

\* ===================================== demonstrate_interface_lifecycle
\* One step of the demo: the request goes out, the answer comes back
LifecycleCall(req, fault, op, failed) ==
    LET a == Transport(req, fault, device, hostname)
    IN  /\ reqlog' = Append(reqlog, req)
        /\ answers' = Append(answers, Seen(a))
        /\ reports' = IF failed THEN Append(reports, op) ELSE reports
        /\ before' = device
        /\ device' = a.device
        /\ hostname' = a.hostname
        /\ UNCHANGED <<authVars, callVars, setupVars, demoVars, netVars>>

\* the step that follows the final read when the delete hangs on its result
AfterFinalReadIfRead(config) == IF config = RetNone THEN "done" ELSE "delete"

\* line 266 follows line 262 whatever final_config is
AfterFinalRead(config) == "delete"

\* if configurator.create_interface_config(interface_config):
LifecycleCreate(fault) ==
    LET req == create_interface_config_request(interface_config)
        ret == create_interface_config_result(Answer(req, fault))
    IN  /\ pc = "create"
        /\ LifecycleCall(req, fault, "create_interface_config", ret = RetFalse)
        /\ pc' = IF ret = RetTrue THEN "read" ELSE "done"
        /\ UNCHANGED <<current_config, final_config, device0, hostname0,
                       original_hostname, interfaces>>

\* current_config = configurator.get_interface_config(test_interface)
LifecycleRead(fault) ==
    LET req == get_interface_config_request(test_interface)
        ret == get_interface_config_result(Answer(req, fault))
    IN  /\ pc = "read"
        /\ LifecycleCall(req, fault, "get_interface_config", ret = RetNone)
        /\ current_config' = ret
        /\ pc' = "update_description"
        /\ UNCHANGED <<final_config, device0, hostname0, original_hostname,
                       interfaces>>

\* configurator.update_interface_config(test_interface, updates)
LifecycleUpdateDescription(fault) ==
    LET req == update_interface_config_request(test_interface, updates)
        ret == update_interface_config_result(Answer(req, fault))
    IN  /\ pc = "update_description"
        /\ LifecycleCall(req, fault, "update_interface_config", ret = RetFalse)
        /\ pc' = "update_ip"
        /\ UNCHANGED <<current_config, final_config, device0, hostname0,
                       original_hostname, interfaces>>

\* configurator.update_interface_config(test_interface, ip_config)
LifecycleUpdateIp(fault) ==
    LET req == update_interface_config_request(test_interface, ip_config)
        ret == update_interface_config_result(Answer(req, fault))
    IN  /\ pc = "update_ip"
        /\ LifecycleCall(req, fault, "update_interface_config", ret = RetFalse)
        /\ pc' = "final_read"
        /\ UNCHANGED <<current_config, final_config, device0, hostname0,
                       original_hostname, interfaces>>

\* final_config = configurator.get_interface_config(test_interface)
LifecycleFinalRead(fault) ==
    LET req == get_interface_config_request(test_interface)
        ret == get_interface_config_result(Answer(req, fault))
    IN  /\ pc = "final_read"
        /\ LifecycleCall(req, fault, "get_interface_config", ret = RetNone)
        /\ final_config' = ret
        /\ pc' = AfterFinalRead(ret)
        /\ UNCHANGED <<current_config, device0, hostname0,
                       original_hostname, interfaces>>

\* configurator.delete_interface_config(test_interface)
LifecycleDelete(fault) ==
    LET req == delete_interface_config_request(test_interface)
        ret == delete_interface_config_result(Answer(req, fault))
    IN  /\ pc = "delete"
        /\ LifecycleCall(req, fault, "delete_interface_config", ret = RetFalse)
        /\ pc' = "done"
        /\ UNCHANGED <<current_config, final_config, device0, hostname0,
                       original_hostname, interfaces>>

LifecycleNext ==
    \/ \E f \in Faults : LifecycleCreate(f)
    \/ \E f \in Faults : LifecycleRead(f)
    \/ \E f \in Faults : LifecycleUpdateDescription(f)
    \/ \E f \in Faults : LifecycleUpdateIp(f)
    \/ \E f \in Faults : LifecycleFinalRead(f)
    \/ \E f \in Faults : LifecycleDelete(f)

\* ================================================== setup_environment.py
\* required_major, required_minor = 3, 8
required_major == 3
required_minor == 8

\* sys.version_info[:2] of the interpreters the script may be run with
MaxMajor == 4
MaxMinor == 12
PythonVersions ==
    {<<major, minor>> : major \in 0..MaxMajor, minor \in 0..MaxMinor}

\* a version check that wants each part to be at least the required one
check_python_version_by_part(version) ==
    version[1] >= required_major /\ version[2] >= required_minor

\* check_python_version(): False when the interpreter is older than 3.8
check_python_version(version) ==
    LET major == version[1]
        minor == version[2]
    IN  ~(major < required_major
          \/ (major = required_major /\ minor < required_minor))

\* install_requirements: packages ; verify_installations: test_imports
packages == <<"requests", "urllib3", "ncclient", "lxml", "PyYAML", "jsonschema">>
test_imports == <<"requests", "urllib3", "ncclient", "lxml", "yaml", "jsonschema">>

\* what main calls after the version check, in the order of its body
SetupSequence ==
    <<"install_requirements", "verify_installations", "create_sample_config",
      "test_basic_functionality", "check_network_connectivity",
      "display_next_steps">>

\* a step of main that touches neither the authenticator nor a device
SetupStep ==
    /\ exit_status = None
    /\ UNCHANGED <<authVars, callVars, devVars, lifeVars, python_version,
                   demoVars, netVars>>

\* main: if not check_python_version(): sys.exit(1)
main_check_python_version ==
    /\ setup_pc = "check_python_version"
    /\ SetupStep
    /\ steps' = Append(steps, "check_python_version")
    /\ IF check_python_version(python_version)
       THEN /\ outcomes' = Append(outcomes, RetTrue)
            /\ setup_pc' = "install_requirements"
            /\ exit_status' = None
       ELSE /\ outcomes' = Append(outcomes, RetFalse)
            /\ setup_pc' = "exited"
            /\ exit_status' = Some(1)
    /\ UNCHANGED <<next_package, success_count, warnings>>

\* main calls install_requirements(): success_count = 0, the loop starts
main_install_requirements ==
    /\ setup_pc = "install_requirements"
    /\ SetupStep
    /\ steps' = Append(steps, "install_requirements")
    /\ next_package' = 1
    /\ success_count' = 0
    /\ setup_pc' = "install_package"
    /\ UNCHANGED <<warnings, outcomes, exit_status>>

\* one turn of the loop of install_requirements: install_package(package)
\* is True, or False when pip ends with CalledProcessError
install_package(installed) ==
    /\ setup_pc = "install_package"
    /\ next_package <= Len(packages)
    /\ SetupStep
    /\ success_count' = IF installed THEN success_count + 1 ELSE success_count
    /\ next_package' = next_package + 1
    /\ UNCHANGED <<setup_pc, steps, warnings, outcomes, exit_status>>

\* install_requirements returns success_count == len(packages); main warns
\* when it is False and goes on
main_after_install ==
    /\ setup_pc = "install_package"
    /\ next_package > Len(packages)
    /\ SetupStep
    /\ outcomes' = Append(outcomes, IF success_count = Len(packages)
                                    THEN RetTrue ELSE RetFalse)
    /\ warnings' = IF success_count = Len(packages) THEN warnings
                   ELSE Append(warnings, "Some packages failed to install")
    /\ setup_pc' = "verify_installations"
    /\ UNCHANGED <<steps, next_package, success_count, exit_status>>

\* main calls verify_installations()
main_verify_installations ==
    /\ setup_pc = "verify_installations"
    /\ SetupStep
    /\ steps' = Append(steps, "verify_installations")
    /\ next_package' = 1
    /\ success_count' = 0
    /\ setup_pc' = "check_package"
    /\ UNCHANGED <<warnings, outcomes, exit_status>>

\* one turn of the loop of verify_installations: check_package(name, import)
\* is True, or False on ImportError
check_package(importable) ==
    /\ setup_pc = "check_package"
    /\ next_package <= Len(test_imports)
    /\ SetupStep
    /\ success_count' = IF importable THEN success_count + 1 ELSE success_count
    /\ next_package' = next_package + 1
    /\ UNCHANGED <<setup_pc, steps, warnings, outcomes, exit_status>>

main_after_verify ==
    /\ setup_pc = "check_package"
    /\ next_package > Len(test_imports)
    /\ SetupStep
    /\ outcomes' = Append(outcomes, IF success_count = Len(test_imports)
                                    THEN RetTrue ELSE RetFalse)
    /\ warnings' = IF success_count = Len(test_imports) THEN warnings
                   ELSE Append(warnings, "Some packages could not be verified")
    /\ setup_pc' = "create_sample_config"
    /\ UNCHANGED <<steps, next_package, success_count, exit_status>>

\* what the file system does with mkdir("config") and the two open(.., 'w')
FileSystemOutcomes == {"written", "OSError"}

\* main calls create_sample_config(), which has no handler: an OSError of
\* mkdir or open ends the process with a traceback and status 1
main_create_sample_config(fs) ==
    /\ setup_pc = "create_sample_config"
    /\ SetupStep
    /\ steps' = Append(steps, "create_sample_config")
    /\ IF fs = "written"
       THEN /\ outcomes' = Append(outcomes, RetTrue)
            /\ setup_pc' = "test_basic_functionality"
            /\ exit_status' = None
       ELSE /\ outcomes' = Append(outcomes, Raised(fs))
            /\ setup_pc' = "crashed"
            /\ exit_status' = Some(1)
    /\ UNCHANGED <<next_package, success_count, warnings>>

\* main calls test_basic_functionality() and ignores what it returns
main_test_basic_functionality(passed) ==
    /\ setup_pc = "test_basic_functionality"
    /\ SetupStep
    /\ steps' = Append(steps, "test_basic_functionality")
    /\ outcomes' = Append(outcomes, IF passed THEN RetTrue ELSE RetFalse)
    /\ setup_pc' = "check_network_connectivity"
    /\ UNCHANGED <<next_package, success_count, warnings, exit_status>>

\* ping answered, ping failed, or subprocess.run raised
PingOutcomes == {"reachable", "unreachable", "raised"}

\* main calls check_network_connectivity(), which returns True in every case
main_check_network_connectivity(ping) ==
    /\ setup_pc = "check_network_connectivity"
    /\ SetupStep
    /\ steps' = Append(steps, "check_network_connectivity")
    /\ outcomes' = Append(outcomes, RetTrue)
    /\ warnings' = IF ping = "reachable" THEN warnings
                   ELSE Append(warnings, "network connectivity not tested")
    /\ setup_pc' = "display_next_steps"
    /\ UNCHANGED <<next_package, success_count, exit_status>>

\* main calls display_next_steps() and returns: the process ends with status 0
main_display_next_steps ==
    /\ setup_pc = "display_next_steps"
    /\ SetupStep
    /\ steps' = Append(steps, "display_next_steps")
    /\ outcomes' = Append(outcomes, RetNone)
    /\ setup_pc' = "done"
    /\ exit_status' = Some(0)
    /\ UNCHANGED <<next_package, success_count, warnings>>

SetupNext ==
    \/ main_check_python_version
    \/ main_install_requirements
    \/ \E installed \in BOOLEAN : install_package(installed)
    \/ main_after_install
    \/ main_verify_installations
    \/ \E importable \in BOOLEAN : check_package(importable)
    \/ main_after_verify
    \/ \E fs \in FileSystemOutcomes : main_create_sample_config(fs)
    \/ \E passed \in BOOLEAN : main_test_basic_functionality(passed)
    \/ \E ping \in PingOutcomes : main_check_network_connectivity(ping)
    \/ main_display_next_steps

\* ======================================================= specifications
\* the parts of the state a specification does not exercise stay as they are
CallInit ==
    /\ lastOp = "__init__"
    /\ lastArgs = <<>>
    /\ lastOutcome = None
    /\ result = NoResult
    /\ netcalls = <<>>
    /\ printed = ""

LifecycleIdle ==
    /\ pc = "idle"
    /\ reqlog = <<>>
    /\ answers = <<>>
    /\ reports = <<>>
    /\ current_config = RetNone
    /\ final_config = RetNone
    /\ device0 = device
    /\ hostname0 = hostname
    /\ original_hostname = None
    /\ interfaces = RetNone

SetupIdle ==
    /\ python_version = <<required_major, required_minor>>
    /\ setup_pc = "idle"
    /\ steps = <<>>
    /\ next_package = 1
    /\ success_count = 0
    /\ warnings = <<>>
    /\ outcomes = <<>>
    /\ exit_status = None

\* no demonstrate_* function is running
DemoIdle ==
    /\ demo = "none"
    /\ demo_pc = "idle"
    /\ calls = <<>>

\* NetconfClient.__init__: no connection yet
NetconfIdle ==
    /\ connection = None
    /\ sessions = <<>>
    /\ was_open = FALSE

DeviceIdle ==
    /\ device = [n \in DeviceNames |-> None]
    /\ hostname = "router1"
    /\ before = device

\* RestconfAuthenticator, operation by operation
Init ==
    /\ AuthInit
    /\ CallInit
    /\ DeviceIdle
    /\ LifecycleIdle
    /\ SetupIdle
    /\ DemoIdle
    /\ NetconfIdle
Next == AuthNext
Spec == Init /\ [][Next]_vars

\* RestconfConfigurator against a device, call by call
ConfigInit ==
    /\ AuthInit
    /\ CallInit
    /\ device \in InitialDevices
    /\ hostname = "router1"
    /\ before = device
    /\ LifecycleIdle
    /\ SetupIdle
    /\ DemoIdle
    /\ NetconfIdle
ConfigSpec == ConfigInit /\ [][ConfigNext]_vars

\* demonstrate_interface_lifecycle against a device
LifecycleInit ==
    /\ AuthInit
    /\ CallInit
    /\ device \in InitialDevices
    /\ hostname = "router1"
    /\ before = device
    /\ pc = "create"
    /\ reqlog = <<>>
    /\ answers = <<>>
    /\ reports = <<>>
    /\ current_config = RetNone
    /\ final_config = RetNone
    /\ device0 = device
    /\ hostname0 = hostname
    /\ original_hostname = None
    /\ interfaces = RetNone
    /\ SetupIdle
    /\ DemoIdle
    /\ NetconfIdle
LifecycleSpec == LifecycleInit /\ [][LifecycleNext]_vars
\* the demo is sequential code: a step that can run does run, once the
\* transport has answered or raised
LifecycleFairSpec == LifecycleSpec /\ WF_vars(LifecycleNext)

\* RestconfAuthenticator with a record of the credential pairs the last two
\* basic_auth calls were given
recorded_basic_auth(cred, o) ==
    /\ basic_auth(cred, o)
    /\ basic_credentials' = <<basic_credentials[2], Some(cred)>>

\* the answers of the token endpoint in the credential scenarios
SessionTokenOutcomes ==
    {Response(404), TokenResponse(Some("tokA"), "int", 0),
     TokenResponse(Some("tokA"), "int", MaxExpiresIn)}

SessionNext ==
    \/ \E c \in Credentials, o \in ProbeOutcomes :
          recorded_basic_auth(c, o) /\ UNCHANGED demoVars
    \/ \E c \in TokenCredentials, o \in SessionTokenOutcomes :
          token_auth(c, o) /\ UNCHANGED demoVars
    \/ \E cp \in CertPairs, o \in CertProbeOutcomes :
          certificate_auth(cp, o) /\ UNCHANGED demoVars
    \/ \E c \in DispatchCalls, o \in DispatchOutcomes :
          make_authenticated_request(c.method, c.url, c.json, o)
             /\ UNCHANGED demoVars
    \/ Tick /\ UNCHANGED demoVars
SessionSpec == Init /\ [][SessionNext]_vars

\* setup_environment.main, call by call
SetupInit ==
    /\ AuthInit
    /\ CallInit
    /\ DeviceIdle
    /\ LifecycleIdle
    /\ python_version \in PythonVersions
    /\ setup_pc = "check_python_version"
    /\ steps = <<>>
    /\ next_package = 1
    /\ success_count = 0
    /\ warnings = <<>>
    /\ outcomes = <<>>
    /\ exit_status = None
    /\ DemoIdle
    /\ NetconfIdle
SetupSpec == SetupInit /\ [][SetupNext]_vars

\* ================================================================ claims
\* The token the authenticator holds is usable at the current instant
TokenValid ==
    /\ Truthy(token)
    /\ token_expiry # None
    /\ now < token_expiry[1]

AuthenticateOps == {"basic_auth", "token_auth", "certificate_auth"}

\* C1: make_authenticated_request makes no network call and returns None
\* whenever the last successful authentication was token_auth and
\* is_token_expired() is true at the time of the call.
C1_ExpiredBearerDispatchFailsFast ==
    (/\ lastOp = "make_authenticated_request"
     /\ mode = "token"
     /\ is_token_expired(token, token_expiry, now))
    => (netcalls = <<>> /\ result = RetNone)

\* C2: after a successful authenticate_* call exactly one credential mode is
\* active on the session: the credentials and headers of every other mode are
\* gone.
C2_ExactlyOneCredentialMode ==
    (lastOp \in AuthenticateOps /\ result = RetTrue) =>
        /\ mode = "basic" =>
              /\ headers.Authorization = None
              /\ token = None
              /\ session_cert = None
        /\ mode = "token" =>
              /\ session_auth = None
              /\ session_cert = None
        /\ mode = "certificate" =>
              /\ session_auth = None
              /\ headers.Authorization = None
              /\ token = None

\* C3: every dispatch makes zero or one network call; a dispatch that is not
\* fast-failed (the mode is not bearer-token, or the bearer token is still
\* valid) makes exactly one, with the given method, URL and arguments, and
\* hands the transport's response back unmodified; a session in basic or
\* certificate mode is never failed with the expiry signal.
C3_DispatchForwardsUnlessExpiredBearer ==
    lastOp = "make_authenticated_request" =>
        /\ Len(netcalls) <= 1
        /\ ~(mode = "token" /\ is_token_expired(token, token_expiry, now)) =>
              /\ Len(netcalls) = 1
              /\ netcalls[1].method = lastArgs[1]
              /\ netcalls[1].url = lastArgs[2]
              /\ netcalls[1].json = lastArgs[3]
              /\ lastOutcome # None
              /\ lastOutcome[1].kind = "response"
                    => result = <<"response", lastOutcome[1]>>
              /\ result # RetNone

\* C4: refresh_token makes no network call and returns True when the token is
\* valid, and makes exactly one call, a POST to the token endpoint, when the
\* token is expired or absent.
C4_RefreshCallsTokenEndpointOnlyWhenExpired ==
    [][lastOp' = "refresh_token" =>
          IF TokenValid
          THEN netcalls' = <<>> /\ result' = RetTrue
          ELSE /\ Len(netcalls') = 1
               /\ netcalls'[1].method = "POST"
               /\ netcalls'[1].url = token_url]_vars

C4_Witness ==
    /\ lastOp = "refresh_token"
    /\ TokenValid
    /\ netcalls = <<>>
    /\ result = RetTrue

\* C5: while no token_auth has succeeded, is_token_expired() is true: on the
\* fresh authenticator, after failed token_auth calls and after successful
\* basic or certificate authentications.
C5_ExpiredUntilFirstToken ==
    issued = None =>
        /\ is_token_expired(token, token_expiry, now)
        /\ lastOp = "is_token_expired" => result = RetTrue

C5_Witness ==
    /\ issued = None
    /\ mode \in {"basic", "certificate"}
    /\ lastOp = "is_token_expired"
    /\ result = RetTrue

StepFailed(i) == CallFailed(answers[i])
CreateFailed == Len(answers) >= 1 /\ StepFailed(1)
CreateSucceeded == Len(answers) >= 1 /\ ~StepFailed(1)
AllStepsSucceeded == \A i \in DOMAIN answers : ~StepFailed(i)
Methods == [i \in DOMAIN reqlog |-> reqlog[i].method]
TestInterfaceUrl == <<interfaces_url, "/interface=", "Loopback100">>
DeleteRequests ==
    {i \in DOMAIN reqlog :
        reqlog[i].method = "DELETE" /\ reqlog[i].url = TestInterfaceUrl}

\* C7: when the create call of the lifecycle demo fails, the demo sends no
\* read, update or delete afterwards, reports exactly one failure, that of the
\* create step, and an interface that was on the device before is left as it
\* was.
C7_FailedCreateEndsTheDemo ==
    CreateFailed =>
        /\ pc = "done"
        /\ Len(reqlog) = 1
        /\ reqlog[1].method = "POST"
        /\ reports = <<"create_interface_config">>
        /\ device0[test_interface] # None
              => device[test_interface] = device0[test_interface]

C7_Witness ==
    /\ CreateFailed
    /\ answers[1].kind = "response"
    /\ answers[1].status = 409
    /\ pc = "done"
    /\ device[test_interface] = Some(ConfiguredBefore(test_interface))

\* C8: whenever the create step succeeded, the delete request for the test
\* interface is eventually sent, and sent exactly once, whatever the outcome
\* of the reads and updates in between.
C8_DeleteEventuallySentOnce ==
    [](CreateSucceeded => <>[](Cardinality(DeleteRequests) = 1))

C8_Witness ==
    /\ pc = "done"
    /\ CreateSucceeded
    /\ \A i \in 2..5 : StepFailed(i)
    /\ Cardinality(DeleteRequests) = 1

\* what the resource is after k requests of a run in which every step
\* succeeds
LifecycleSteps ==
    <<"create", "read", "update_description", "update_ip", "final_read",
      "delete", "done">>
LifecycleMethods == <<"POST", "GET", "PATCH", "PATCH", "GET", "DELETE">>
Updated == Merge(interface_config, updates)
Addressed == Merge(Updated, ip_config)
ResourceAfter(k) ==
    IF k = 0 THEN device0[test_interface]
    ELSE IF k = Len(LifecycleMethods) THEN None
    ELSE IF k <= 2 THEN Some(interface_config)
    ELSE IF k = 3 THEN Some(Updated)
    ELSE Some(Addressed)

\* C9 (as amended): the demo moves through absent, created, read-back,
\* updated, read-back-2, deleted in that order; every transition sends one
\* request except the update, which sends two PATCH requests (description,
\* then IP address): a run in which every step succeeds sends POST, GET, PATCH,
\* PATCH, GET, DELETE, six requests, and the reads return the resource as
\* created and as updated.
C9_SixRequestsInOrder ==
    AllStepsSucceeded =>
        LET k == Len(reqlog)
        IN  /\ k <= Len(LifecycleMethods)
            /\ Methods = SubSeq(LifecycleMethods, 1, k)
            /\ pc = LifecycleSteps[k + 1]
            /\ \A i \in DOMAIN reqlog :
                  reqlog[i].url = IF i = 1 THEN CollectionUrl
                                  ELSE TestInterfaceUrl
            /\ device[test_interface] = ResourceAfter(k)
            /\ k >= 2 => current_config
                            = <<"dict", INTERFACE_KEY :> interface_config>>
            /\ k >= 5 => final_config = <<"dict", INTERFACE_KEY :> Addressed>>

C9_Witness ==
    /\ pc = "done"
    /\ AllStepsSucceeded
    /\ Len(reqlog) = 6
    /\ device0[test_interface] = None
    /\ device[test_interface] = None

\* C9 (as claimed): a run in which every step succeeds sends one create, one
\* read, one update, one read and one delete, five requests in total.
C9_FiveRequestsInOrder ==
    (pc = "done" /\ AllStepsSucceeded) =>
        Methods = <<"POST", "GET", "PATCH", "GET", "DELETE">>

\* ---------------------------------------------------------- configurator
\* the dict a read returned holds value v under key k of the interface
Shows(ret, k, v) ==
    /\ ret[1] = "dict"
    /\ INTERFACE_KEY \in DOMAIN ret[2]
    /\ k \in DOMAIN ret[2][INTERFACE_KEY]
    /\ ret[2][INTERFACE_KEY][k] = v

\* this step is a read of the named interface
ReadsNext(interface_name) ==
    /\ lastOp' = "get_interface_config"
    /\ lastArgs' = <<interface_name>>
\* ... which the device answers
DeviceAnswersNext == lastOutcome'[1].fault = "served"

\* C10: against a device on which POST creates, PATCH merges and DELETE
\* removes, with nobody else writing: the read that follows a successful
\* create returns the name, description and enabled flag that were sent; the
\* read that follows an update of the description alone shows the new
\* description and the name and enabled flag of before; the read that follows
\* a delete returns None.
C10_ReadAfterWrite ==
    [][/\ (/\ lastOp = "create_interface_config"
           /\ result = RetTrue
           /\ ReadsNext(lastArgs[1].name)
           /\ DeviceAnswersNext)
          => \A k \in {"name", "description", "enabled"} :
                Shows(result', k, lastArgs[1][k])
       /\ (/\ lastOp = "update_interface_config"
           /\ result = RetTrue
           /\ DOMAIN lastArgs[2] = {"description"}
           /\ ReadsNext(lastArgs[1])
           /\ DeviceAnswersNext)
          => /\ Shows(result', "description", lastArgs[2].description)
             /\ before[lastArgs[1]] # None
             /\ \A k \in {"name", "enabled"} :
                   Shows(result', k, before[lastArgs[1]][1][k])
       /\ (/\ lastOp = "delete_interface_config"
           /\ result = RetTrue
           /\ ReadsNext(lastArgs[1]))
          => /\ result' = RetNone
             /\ DeviceAnswersNext => lastOutcome'[1].answer.status = 404
      ]_vars

C10_Witness ==
    /\ lastOp = "get_interface_config"
    /\ lastArgs = <<slash_interface>>
    /\ lastOutcome # None
    /\ lastOutcome[1].fault = "served"
    /\ Shows(result, "name", slash_interface)
    /\ Shows(result, "description", updates.description)
    /\ Shows(result, "enabled", FALSE)

Answered2xx(o) == o.kind = "response" /\ o.status >= 200 /\ o.status < 300

\* C12: basic_auth makes exactly one GET probe of the capabilities resource,
\* returns True only when the probe ends with a 2xx status and False, never an
\* exception, on a transport error or any other status; in every case the
\* session holds the pair it was given and the content-negotiation headers.
C12_BasicAuthTrueOnlyOn2xx ==
    lastOp = "basic_auth" =>
        /\ Len(netcalls) = 1
        /\ netcalls[1].method = "GET"
        /\ netcalls[1].url = capabilities_url
        /\ result = IF Answered2xx(lastOutcome[1]) THEN RetTrue ELSE RetFalse
        /\ session_auth = lastArgs
        /\ headers.Accept = Some(YANG_JSON)
        /\ headers.ContentType = Some(YANG_JSON)

\* the token endpoint did not answer, or answered with a status outside 2xx
TokenEndpointFailed(o) == ~Answered2xx(o)

\* C13: a token_auth whose token endpoint is absent, unreachable or answers
\* with a status other than success returns False and leaves the stored
\* token, its expiry and the session's default headers as they were.
C13_FailedTokenAuthChangesNothing ==
    [][(lastOp' = "token_auth" /\ TokenEndpointFailed(lastOutcome'[1])) =>
          /\ result' = RetFalse
          /\ token' = token
          /\ token_expiry' = token_expiry
          /\ headers' = headers]_vars

\* a failed acquisition on an authenticator that holds a token
C13_Witness ==
    /\ lastOp = "token_auth"
    /\ TokenEndpointFailed(lastOutcome[1])
    /\ result = RetFalse
    /\ Truthy(token)
    /\ token_expiry # None
    /\ headers.Authorization = Some(<<"Bearer", token>>)

\* C14: in every state between two operations the token, its expiry and the
\* bearer header are all absent, or all three come from the one token
\* response accepted last.
C14_TokenStateReplacedAtomically ==
    IF issued = None
    THEN /\ token = None
         /\ token_expiry = None
         /\ headers.Authorization = None
    ELSE /\ token = issued[1].tok
         /\ token_expiry = Some(issued[1].at + issued[1].expires_in)
         /\ headers.Authorization = Some(<<"Bearer", issued[1].tok>>)

\* the operation's call into the transport failed: it raised, or the answer
\* carries a 4xx or 5xx status
TransportFailed ==
    /\ lastOutcome # None
    /\ \/ lastOutcome[1].kind = "exception"
       \/ RaisesForStatus(lastOutcome[1].status)

\* C15: no operation lets a failure of its network call reach the caller as
\* an exception: a call that raised ends in False or None.
C15_NoTransportFailurePropagates ==
    (/\ lastOutcome # None
     /\ lastOutcome[1].kind = "exception"
     /\ lastOutcome[1].exc = "RequestException")
    => result \in {RetFalse, RetNone}

\* the certificate or key file is missing
CertificateFilesMissing(o) == o \in {FileNotFound, CertFileMissing}

\* C16: certificate_auth returns False without raising in both failure
\* classes and tells them apart: missing certificate files give 'Certificate
\* files not found', a failed probe gives 'Certificate authentication failed',
\* and neither failure gives the other's outcome.
C16_CertificateFailuresDistinct ==
    lastOp = "certificate_auth" =>
        /\ CertificateFilesMissing(lastOutcome[1]) =>
              /\ result = RetFalse
              /\ printed = "Certificate files not found"
        /\ (TransportFailed /\ ~CertificateFilesMissing(lastOutcome[1])) =>
              /\ result = RetFalse
              /\ printed = "Certificate authentication failed"

\* token and token_expiry are None while no acquisition has succeeded
TokenStateNullUntilAcquired ==
    issued' = None => (token' = None /\ token_expiry' = None)

\* the operations other than the two acquisitions leave token and
\* token_expiry alone, and is_token_expired leaves everything alone
TokenStateFrame ==
    /\ lastOp' \notin {"token_auth", "refresh_token"} =>
          (token' = token /\ token_expiry' = token_expiry)
    /\ lastOp' = "is_token_expired" => UNCHANGED authVars

\* C17: token and token_expiry are None until a token acquisition has
\* succeeded; only token_auth and refresh_token change them; is_token_expired
\* changes nothing of the authenticator.
C17_TokenStateChangedOnlyByAcquisition ==
    [][TokenStateNullUntilAcquired /\ TokenStateFrame]_vars

\* C19: once a token has been acquired, a refresh_token call made strictly
\* before its expiry instant makes no network call, returns True and leaves
\* token, token_expiry and the session headers as they are; so does every
\* further one.
C19_RefreshIdempotentWhileValid ==
    [][(lastOp' = "refresh_token" /\ issued # None /\ TokenValid) =>
          /\ netcalls' = <<>>
          /\ result' = RetTrue
          /\ token' = token
          /\ token_expiry' = token_expiry
          /\ headers' = headers
          /\ TokenValid']_vars

\* a refresh inside the validity window, after time has passed
C19_Witness ==
    /\ lastOp = "refresh_token"
    /\ issued # None
    /\ TokenValid
    /\ issued[1].at < now
    /\ headers.Authorization = Some(<<"Bearer", token>>)
    /\ netcalls = <<>>
    /\ result = RetTrue

\* C20: when token_auth or refresh_token returns True the authenticator holds
\* a usable token: token is not None and is_token_expired() is false, for
\* every answer of the token endpoint.
C20_TrueMeansUsableToken ==
    (lastOp \in {"token_auth", "refresh_token"} /\ result = RetTrue) =>
        /\ token # None
        /\ ~is_token_expired(token, token_expiry, now)

\* ------------------------------------------------------- setup script
\* main has ended: it returned, called sys.exit, or died of an exception
SetupEnded == exit_status # None

AllSetupSteps == <<"check_python_version">> \o SetupSequence

\* C18: the process ends with a failure status only through the version
\* check, before install_requirements is called; when the version check
\* passes, main calls install, verify, sample-config creation, functionality
\* test, connectivity check and next-steps display, in that order, whatever
\* they return.
C18_OnlyVersionCheckIsFatal ==
    /\ \A i \in DOMAIN steps : steps[i] = AllSetupSteps[i]
    /\ (SetupEnded /\ exit_status # Some(0)) =>
          /\ ~check_python_version(python_version)
          /\ steps = <<"check_python_version">>
    /\ (SetupEnded /\ check_python_version(python_version)) =>
          steps = AllSetupSteps

\* ------------------------------------------------- bearer header and token
\* C21: the session's default headers hold a Bearer Authorization header
\* only if self.token is a token (not None) and the header embeds exactly
\* that token; and no request forwarded by make_authenticated_request
\* carries a bearer header whose token is_token_expired() reports expired.
C21_BearerHeaderMatchesLiveToken ==
    /\ headers.Authorization # None =>
          /\ token # None
          /\ headers.Authorization = Some(<<"Bearer", token>>)
    /\ (/\ lastOp = "make_authenticated_request"
        /\ netcalls # <<>>
        /\ netcalls[1].headers.Authorization # None) =>
          ~is_token_expired(token, token_expiry, now)

\* ------------------------------------------ authentication.py: the demos
\* demonstrate_basic_auth, demonstrate_token_auth,
\* demonstrate_certificate_auth, demonstrate_session_management
AuthDemos == {"basic", "token", "certificate", "session"}

\* USERNAME, PASSWORD and CERT_FILE, KEY_FILE of the demos
DemoCredentials == <<"admin", "password">>
DemoCertPair == <<"/path/to/client.crt", "/path/to/client.key">>

nonexistent_module_url == "/restconf/data/nonexistent-module:data"
invalid_interface_url ==
    "/restconf/data/ietf-interfaces:interfaces/interface=InvalidInterface"

\* the URLs each demo dispatches, in order
DemoRequests(d) ==
    CASE d = "basic" -> <<interfaces_url>>
      [] d = "token" -> <<hostname_url, hostname_url, hostname_url>>
      [] d = "certificate" -> <<interfaces_url>>
      [] d = "session" ->
            <<interfaces_url, nonexistent_module_url, invalid_interface_url>>

\* the call the running demo has just made, as the demo saw it
Called ==
    [op |-> lastOp', args |-> lastArgs', ret |-> result', sent |-> netcalls']

\* a demo that dispatches whether or not the authentication succeeded
AfterAuthenticate_unguarded(ret) ==
    IF ret[1] = "raised" THEN "raised" ELSE "request"

\* if auth.basic_auth(...): / if auth.token_auth(...): /
\* if auth.certificate_auth(...): / if not auth.basic_auth(...): return
AfterAuthenticate(ret) ==
    IF ret[1] = "raised" THEN "raised"
    ELSE IF ret = RetTrue THEN "request" ELSE "done"

\* where a demo goes after its n-th dispatch returned ret; json_ok tells
\* whether the body of a 200 answer parses as JSON
AfterRequest(d, n, ret, json_ok) ==
    IF d = "session"
    THEN IF n < Len(DemoRequests(d)) THEN "request" ELSE "done"
    ELSE IF ret[1] = "raised" THEN "raised"
    ELSE IF d = "certificate" THEN "done"
    ELSE IF ret[1] = "response" /\ ret[2].status = 200 /\ ~json_ok
         THEN "raised"
    ELSE IF d = "token" THEN "sleep" ELSE "done"

\* the demo's authentication step
DemoAuthenticate ==
    /\ demo_pc = "authenticate"
    /\ \/ /\ demo \in {"basic", "session"}
          /\ \E o \in ProbeOutcomes : basic_auth(DemoCredentials, o)
          /\ UNCHANGED basic_credentials
       \/ /\ demo = "token"
          /\ \E o \in TokenOutcomes : token_auth(DemoCredentials, o)
       \/ /\ demo = "certificate"
          /\ \E o \in CertProbeOutcomes : certificate_auth(DemoCertPair, o)
    /\ calls' = Append(calls, Called)
    /\ demo_pc' = AfterAuthenticate(result')
    /\ UNCHANGED demo

\* one auth.make_authenticated_request('GET', url) of the demo
DemoRequest ==
    /\ demo_pc = "request"
    /\ \E o \in DispatchOutcomes, json_ok \in BOOLEAN :
          /\ make_authenticated_request("GET", DemoRequests(demo)[Len(calls)],
                                        None, o)
          /\ calls' = Append(calls, Called)
          /\ demo_pc' = AfterRequest(demo, Len(calls), result', json_ok)
    /\ UNCHANGED demo

\* time.sleep(1) between the requests of demonstrate_token_auth
DemoSleep ==
    /\ demo_pc = "sleep"
    /\ Tick
    /\ demo_pc' = IF Len(calls) - 1 < Len(DemoRequests(demo))
                  THEN "request" ELSE "done"
    /\ UNCHANGED <<demo, calls>>

AuthDemoNext == DemoAuthenticate \/ DemoRequest \/ DemoSleep

AuthDemoInit ==
    /\ AuthInit
    /\ CallInit
    /\ DeviceIdle
    /\ LifecycleIdle
    /\ SetupIdle
    /\ demo \in AuthDemos
    /\ demo_pc = "authenticate"
    /\ calls = <<>>
    /\ NetconfIdle
AuthDemoSpec == AuthDemoInit /\ [][AuthDemoNext]_vars

\* C22: in every demo of the authentication example
\* make_authenticated_request is called only after an authenticate_* call on
\* the same authenticator has returned success; when the authentication
\* step returns failure, the demo dispatches no request at all.
C22_DispatchOnlyAfterAuthenticated ==
    /\ \A i \in DOMAIN calls :
          calls[i].op = "make_authenticated_request" =>
             \E j \in 1..(i - 1) :
                /\ calls[j].op \in AuthenticateOps
                /\ calls[j].ret = RetTrue
    /\ (calls # <<>> /\ calls[1].ret # RetTrue) =>
          /\ Len(calls) = 1
          /\ demo_pc \in {"done", "raised"}

\* demonstrate_session_management has authenticated and sent its three
\* test requests
C22_Witness ==
    /\ demo = "session"
    /\ demo_pc = "done"
    /\ Len(calls) = 4
    /\ calls[1].ret = RetTrue
    /\ \A i \in 2..4 : calls[i].op = "make_authenticated_request"
                          /\ calls[i].sent # <<>>

\* ------------------------------- RestconfConfigurator: write operations
\* the five write operations against a device, with every answer a
\* transport can hand back
WriteNext ==
    \/ \E c \in CreateConfigs, f \in WriteFaults : create_interface_config(c, f)
    \/ \E n \in DeviceNames, u \in UpdateConfigs, f \in WriteFaults :
          update_interface_config(n, u, f)
    \/ \E c \in CreateConfigs, f \in WriteFaults :
          replace_interface_config(c.name, c, f)
    \/ \E n \in DeviceNames, f \in WriteFaults : delete_interface_config(n, f)
    \/ \E h \in Hostnames, f \in WriteFaults : configure_hostname(h, f)
WriteSpec == ConfigInit /\ [][WriteNext]_vars

\* the method and the target each write operation is specified to use
WriteMethod ==
    [create_interface_config |-> "POST", update_interface_config |-> "PATCH",
     replace_interface_config |-> "PUT", delete_interface_config |-> "DELETE",
     configure_hostname |-> "PUT"]
WriteTarget(op, args) ==
    IF op = "create_interface_config" THEN CollectionUrl
    ELSE IF op = "configure_hostname" THEN HostnameUrl
    ELSE ItemUrl(quote(args[1]))

\* C23: each write operation issues exactly one request with its own
\* method (create: POST to the collection; update: PATCH, replace: PUT,
\* delete: DELETE on the named interface; hostname: PUT) and returns True
\* if and only if the request completed with a 2xx status; every other
\* status and every transport error yields False.
C23_WriteTrueIffAnswered2xx ==
    lastOp \in DOMAIN WriteMethod =>
        /\ Len(netcalls) = 1
        /\ netcalls[1].method = WriteMethod[lastOp]
        /\ netcalls[1].url = WriteTarget(lastOp, lastArgs)
        /\ result \in {RetTrue, RetFalse}
        /\ result = RetTrue <=>
              /\ lastOutcome[1].answer.kind = "response"
              /\ lastOutcome[1].answer.status \in 200..299

\* ============================================ basic_get.py: RestconfClient
INTERFACES_KEY == "ietf-interfaces:interfaces"
interfaces_state_url == "/restconf/data/ietf-interfaces:interfaces-state"
system_url == "/restconf/data/ietf-system:system"

\* f"{self.base_url}/data/ietf-interfaces:interfaces-state/
\*    interface={encoded_name}/statistics"
StatisticsUrl(encoded_name) ==
    <<interfaces_state_url, "/interface=">> \o encoded_name \o <<"/statistics">>

get_capabilities_request ==
    [method |-> "GET", url |-> <<capabilities_url>>, json |-> None]
get_interfaces_request ==
    [method |-> "GET", url |-> CollectionUrl, json |-> None]
get_interface_request(interface_name) ==
    [method |-> "GET", url |-> ItemUrl(quote(interface_name)), json |-> None]
get_interface_statistics_request(interface_name) ==
    [method |-> "GET", url |-> StatisticsUrl(quote(interface_name)),
     json |-> None]
get_system_info_request ==
    [method |-> "GET", url |-> <<system_url>>, json |-> None]

\* What every RestconfClient.get_* returns: response.json() of an answer
\* that raise_for_status lets through, None for a RequestException; a body
\* that is no JSON makes response.json() raise one (JSONDecodeError)
restconf_get_result(a) ==
    IF CallFailed(a) \/ a.body = None THEN RetNone ELSE <<"dict", a.body[1]>>

\* an interface entry as the device lists it
ListedInterface(name) ==
    [name |-> name, type |-> LOOPBACK_TYPE, enabled |-> TRUE]

\* JSON bodies of the interfaces resource: an empty object, a container
\* without a list, an empty list, one interface, two interfaces
InterfacesBodies ==
    {<<>>,
     (INTERFACES_KEY :> <<>>),
     (INTERFACES_KEY :> [interface |-> <<>>]),
     (INTERFACES_KEY :> [interface |-> <<ListedInterface(test_interface)>>]),
     (INTERFACES_KEY :> [interface |-> <<ListedInterface(slash_interface),
                                         ListedInterface(test_interface)>>])}
\* JSON bodies of the other resources: an empty object, some data
OtherBodies == {<<>>, [data |-> "some"]}

\* what the transport can answer to a GET whose 200 bodies are bodies
GetAnswers(bodies) ==
    {[kind |-> "exception", status |-> 0, body |-> None],
     [kind |-> "response", status |-> 404, body |-> None],
     [kind |-> "response", status |-> 200, body |-> None]}
    \cup {[kind |-> "response", status |-> 200, body |-> Some(b)] :
             b \in bodies}

\* main, step 3: interface_list[0]['name'] if interface_list else None,
\* under "if interfaces:"
first_interface(ifs) ==
    IF ifs = RetNone \/ DOMAIN ifs[2] = {} THEN None
    ELSE LET container == IF INTERFACES_KEY \in DOMAIN ifs[2]
                          THEN ifs[2][INTERFACES_KEY] ELSE <<>>
             interface_list == IF "interface" \in DOMAIN container
                               THEN container.interface ELSE <<>>
         IN  IF interface_list = <<>> THEN None
             ELSE Some(interface_list[1].name)

\* a main that gives up when the capabilities cannot be read
AfterCapabilities_stopping(capabilities) ==
    IF capabilities = RetNone THEN "done" ELSE "interfaces"

\* main, step 1 to step 2: whatever capabilities is
AfterCapabilities(capabilities) == "interfaces"

\* main, step 3: if interfaces: ... if first_interface:
AfterInterfaces(ifs) ==
    IF first_interface(ifs) # None /\ first_interface(ifs)[1] # <<>>
    THEN "interface" ELSE "system"

\* one client.get_*() call of main: the request goes out, an answer comes
GetDemoCall(req, a) ==
    /\ reqlog' = Append(reqlog, req)
    /\ answers' = Append(answers, a)
    /\ UNCHANGED <<reports, current_config, final_config, device0, hostname0,
                   original_hostname>>
    /\ UNCHANGED <<authVars, callVars, devVars, setupVars, demoVars, netVars>>

GetDemoCapabilities ==
    /\ pc = "capabilities"
    /\ \E a \in GetAnswers(OtherBodies) :
          /\ GetDemoCall(get_capabilities_request, a)
          /\ pc' = AfterCapabilities(restconf_get_result(a))
    /\ UNCHANGED interfaces

GetDemoInterfaces ==
    /\ pc = "interfaces"
    /\ \E a \in GetAnswers(InterfacesBodies) :
          /\ GetDemoCall(get_interfaces_request, a)
          /\ interfaces' = restconf_get_result(a)
          /\ pc' = AfterInterfaces(restconf_get_result(a))

GetDemoInterface ==
    /\ pc = "interface"
    /\ \E a \in GetAnswers(OtherBodies) :
          GetDemoCall(get_interface_request(first_interface(interfaces)[1]), a)
    /\ pc' = "statistics"
    /\ UNCHANGED interfaces

GetDemoStatistics ==
    /\ pc = "statistics"
    /\ \E a \in GetAnswers(OtherBodies) :
          GetDemoCall(get_interface_statistics_request(
                         first_interface(interfaces)[1]), a)
    /\ pc' = "system"
    /\ UNCHANGED interfaces

GetDemoSystemInfo ==
    /\ pc = "system"
    /\ \E a \in GetAnswers(OtherBodies) :
          GetDemoCall(get_system_info_request, a)
    /\ pc' = "done"
    /\ UNCHANGED interfaces

GetDemoNext ==
    \/ GetDemoCapabilities
    \/ GetDemoInterfaces
    \/ GetDemoInterface
    \/ GetDemoStatistics
    \/ GetDemoSystemInfo

GetDemoInit ==
    /\ AuthInit
    /\ CallInit
    /\ DeviceIdle
    /\ pc = "capabilities"
    /\ reqlog = <<>>
    /\ answers = <<>>
    /\ reports = <<>>
    /\ current_config = RetNone
    /\ final_config = RetNone
    /\ device0 = device
    /\ hostname0 = hostname
    /\ original_hostname = None
    /\ interfaces = RetNone
    /\ SetupIdle
    /\ DemoIdle
    /\ NetconfIdle
GetDemoSpec == GetDemoInit /\ [][GetDemoNext]_vars
\* main is sequential code: the next call is made once the previous one
\* has returned
GetDemoFairSpec == GetDemoSpec /\ WF_vars(GetDemoNext)

\* the retrieval answered by a succeeded: a 2xx status and a JSON body
Retrieved(a) ==
    a.kind = "response" /\ a.status \in 200..299 /\ a.body # None

\* the interfaces retrieval succeeded and returned a non-empty list
ListedSome(a) ==
    /\ Retrieved(a)
    /\ INTERFACES_KEY \in DOMAIN a.body[1]
    /\ "interface" \in DOMAIN a.body[1][INTERFACES_KEY]
    /\ a.body[1][INTERFACES_KEY].interface # <<>>

\* the requests main has to send, given the answer to the interfaces request
ExpectedRequests(a) ==
    <<get_capabilities_request, get_interfaces_request>>
    \o (IF ListedSome(a)
        THEN LET name == a.body[1][INTERFACES_KEY].interface[1].name
             IN  <<get_interface_request(name),
                   get_interface_statistics_request(name)>>
        ELSE <<>>)
    \o <<get_system_info_request>>

IsPrefix(s, t) == Len(s) <= Len(t) /\ s = SubSeq(t, 1, Len(s))

RequestsAsExpected ==
    /\ Len(reqlog) <= 2 =>
          IsPrefix(reqlog, <<get_capabilities_request, get_interfaces_request>>)
    /\ Len(reqlog) >= 2 => IsPrefix(reqlog, ExpectedRequests(answers[2]))
    /\ pc = "done" =>
          /\ Len(reqlog) >= 2
          /\ reqlog = ExpectedRequests(answers[2])

\* C24: in the basic GET demo a failed retrieval does not stop the steps
\* that follow: the capabilities, interfaces and system-info requests are
\* always issued, in that order, and the interface detail and statistics
\* requests are issued, between the last two, if and only if the interfaces
\* request succeeded and returned a non-empty interface list.
C24_EveryRetrievalStepRuns ==
    []RequestsAsExpected /\ <>(pc = "done")

\* every retrieval failed but the interfaces one, and all five were made
C24_Witness ==
    /\ pc = "done"
    /\ Len(reqlog) = 5
    /\ ListedSome(answers[2])
    /\ \A i \in {1, 3, 4, 5} : ~Retrieved(answers[i])

\* ======================================== demonstrate_bulk_configuration
\* for i in range(101, 104): "name": f"Loopback{i}"
bulk_interfaces ==
    <<(<<"Loopback101">>), (<<"Loopback102">>), (<<"Loopback103">>)>>
bulk_addresses == <<"192.168.101.1", "192.168.102.1", "192.168.103.1">>
BulkNames == {bulk_interfaces[i] : i \in DOMAIN bulk_interfaces}

loopback_configs ==
    [i \in DOMAIN bulk_interfaces |->
        [name |-> bulk_interfaces[i],
         description |-> "Bulk created loopback",
         type |-> LOOPBACK_TYPE,
         enabled |-> TRUE]
        @@ (IPV4_KEY :> [address |-> <<[ip |-> bulk_addresses[i],
                                        netmask |-> "255.255.255.255"]>>])]

\* for config in loopback_configs:
\*     if configurator.create_interface_config(config): success_count += 1
BulkCreate(fault) ==
    LET i == Len(reqlog) + 1
        req == create_interface_config_request(loopback_configs[i])
        ret == create_interface_config_result(Answer(req, fault))
    IN  /\ pc = "create"
        /\ LifecycleCall(req, fault, "create_interface_config", ret = RetFalse)
        /\ pc' = IF i < Len(loopback_configs) THEN "create" ELSE "cleanup"
        /\ UNCHANGED <<current_config, final_config, device0, hostname0,
                       original_hostname, interfaces>>

\* for config in loopback_configs:
\*     configurator.delete_interface_config(config["name"])
BulkDelete(fault) ==
    LET i == Len(reqlog) - Len(loopback_configs) + 1
        req == delete_interface_config_request(loopback_configs[i].name)
        ret == delete_interface_config_result(Answer(req, fault))
    IN  /\ pc = "cleanup"
        /\ LifecycleCall(req, fault, "delete_interface_config", ret = RetFalse)
        /\ pc' = IF i < Len(loopback_configs) THEN "cleanup" ELSE "done"
        /\ UNCHANGED <<current_config, final_config, device0, hostname0,
                       original_hostname, interfaces>>

BulkNext ==
    \/ \E f \in Faults : BulkCreate(f)
    \/ \E f \in Faults : BulkDelete(f)

\* the states of the three loopbacks when the demo starts
BulkDevices ==
    {[n \in BulkNames |-> IF n \in present THEN Some(ConfiguredBefore(n))
                          ELSE None] : present \in SUBSET BulkNames}

\* the demo's locals and its log at its entry, before its first step
DemoEntry(first) ==
    /\ pc = first
    /\ reqlog = <<>>
    /\ answers = <<>>
    /\ reports = <<>>
    /\ current_config = RetNone
    /\ final_config = RetNone
    /\ device0 = device
    /\ hostname0 = hostname
    /\ original_hostname = None
    /\ interfaces = RetNone

BulkInit ==
    /\ AuthInit
    /\ CallInit
    /\ device \in BulkDevices
    /\ hostname = "router1"
    /\ before = device
    /\ DemoEntry("create")
    /\ SetupIdle
    /\ DemoIdle
    /\ NetconfIdle
BulkSpec == BulkInit /\ [][BulkNext]_vars

\* the demo's i-th request creates interface n / deletes interface n
CreatesInterface(i, n) ==
    /\ reqlog[i].method = "POST"
    /\ reqlog[i].url = CollectionUrl
    /\ reqlog[i].json[1][INTERFACE_KEY].name = n
DeletesInterface(i, n) ==
    /\ reqlog[i].method = "DELETE"
    /\ reqlog[i].url = ItemUrl(quote(n))

\* C25: the configuration demos never delete a resource they did not
\* create: a DELETE is issued for an interface only if the demo's create
\* call for the same interface returned True, so an interface that was on
\* the device before the demo (its create answered with a conflict) is
\* still there afterwards.
C25_DeletesOnlyWhatItCreated ==
    \A n \in DOMAIN device :
        /\ \A i \in DOMAIN reqlog :
              DeletesInterface(i, n) =>
                 \E j \in 1..(i - 1) : CreatesInterface(j, n) /\ ~StepFailed(j)
        /\ (/\ device0[n] # None
            /\ \E j \in DOMAIN reqlog :
                  /\ CreatesInterface(j, n)
                  /\ answers[j].kind = "response"
                  /\ answers[j].status = 409)
              => device[n] # None

\* ======================================== demonstrate_transaction_safety
\* test_interface = "Loopback200"
transaction_interface == <<"Loopback200">>
test_hostname == "RESTCONF-TEST-DEVICE"

test_config ==
    [name |-> transaction_interface,
     description |-> "Transaction safety test interface",
     type |-> LOOPBACK_TYPE,
     enabled |-> TRUE]

\* configurator.session.get(f"{configurator.base_url}/data/
\*    ietf-system:system/hostname")
hostname_read_request == [method |-> "GET", url |-> HostnameUrl, json |-> None]

\* original_hostname after the try block: the "ietf-system:hostname" member
\* of a 200 answer, None for any other status and for any exception
saved_hostname(a) ==
    IF a.kind = "response" /\ a.status = 200 /\ a.body # None
          /\ HOSTNAME_KEY \in DOMAIN a.body[1]
    THEN Some(a.body[1][HOSTNAME_KEY])
    ELSE None

\* 1. Saving current hostname
TransactionSaveHostname(fault) ==
    LET a == Answer(hostname_read_request, fault)
    IN  /\ pc = "save_hostname"
        /\ LifecycleCall(hostname_read_request, fault, "get_hostname",
                         saved_hostname(a) = None)
        /\ original_hostname' = saved_hostname(a)
        /\ pc' = "create"
        /\ UNCHANGED <<current_config, final_config, device0, hostname0,
                       interfaces>>

\* if configurator.create_interface_config(test_config):
TransactionCreate(fault) ==
    LET req == create_interface_config_request(test_config)
        ret == create_interface_config_result(Answer(req, fault))
    IN  /\ pc = "create"
        /\ LifecycleCall(req, fault, "create_interface_config", ret = RetFalse)
        /\ pc' = IF ret = RetTrue THEN "set_hostname" ELSE "done"
        /\ UNCHANGED <<current_config, final_config, device0, hostname0,
                       original_hostname, interfaces>>

\* configurator.configure_hostname("RESTCONF-TEST-DEVICE")
TransactionSetHostname(fault) ==
    LET req == configure_hostname_request(test_hostname)
        ret == configure_hostname_result(Answer(req, fault))
    IN  /\ pc = "set_hostname"
        /\ LifecycleCall(req, fault, "configure_hostname", ret = RetFalse)
        /\ pc' = "delete"
        /\ UNCHANGED <<current_config, final_config, device0, hostname0,
                       original_hostname, interfaces>>

\* configurator.delete_interface_config(test_interface)
\* if original_hostname:
TransactionDelete(fault) ==
    LET req == delete_interface_config_request(transaction_interface)
        ret == delete_interface_config_result(Answer(req, fault))
    IN  /\ pc = "delete"
        /\ LifecycleCall(req, fault, "delete_interface_config", ret = RetFalse)
        /\ pc' = IF Truthy(original_hostname) THEN "restore" ELSE "done"
        /\ UNCHANGED <<current_config, final_config, device0, hostname0,
                       original_hostname, interfaces>>

\* configurator.configure_hostname(original_hostname)
TransactionRestore(fault) ==
    LET req == configure_hostname_request(original_hostname[1])
        ret == configure_hostname_result(Answer(req, fault))
    IN  /\ pc = "restore"
        /\ LifecycleCall(req, fault, "configure_hostname", ret = RetFalse)
        /\ pc' = "done"
        /\ UNCHANGED <<current_config, final_config, device0, hostname0,
                       original_hostname, interfaces>>

TransactionNext ==
    \/ \E f \in Faults : TransactionSaveHostname(f)
    \/ \E f \in Faults : TransactionCreate(f)
    \/ \E f \in Faults : TransactionSetHostname(f)
    \/ \E f \in Faults : TransactionDelete(f)
    \/ \E f \in Faults : TransactionRestore(f)

\* the hostnames a device can have when the demo starts: set, or empty
TransactionHostnames == {"router1", ""}
TransactionDevices ==
    {(transaction_interface :> None),
     (transaction_interface :> Some(ConfiguredBefore(transaction_interface)))}

TransactionInit ==
    /\ AuthInit
    /\ CallInit
    /\ device \in TransactionDevices
    /\ hostname \in TransactionHostnames
    /\ before = device
    /\ DemoEntry("save_hostname")
    /\ SetupIdle
    /\ DemoIdle
    /\ NetconfIdle
TransactionSpec == TransactionInit /\ [][TransactionNext]_vars

\* the demo's i-th request is a PUT of hostname h
PutsHostname(i, h) == reqlog[i] = configure_hostname_request(h)
HostnamePuts ==
    {i \in DOMAIN reqlog :
        reqlog[i].method = "PUT" /\ reqlog[i].url = HostnameUrl}

\* C26: demonstrate_transaction_safety leaves the hostname as it found it:
\* on every path on which it issued the PUT setting the hostname to the
\* test value it afterwards issues a PUT restoring the original hostname,
\* also when reading the original hostname failed or returned an empty
\* value; and when the create step fails it issues no hostname PUT at all.
C26_HostnameRestoredAfterTest ==
    pc = "done" =>
        /\ \A i \in DOMAIN reqlog :
              PutsHostname(i, test_hostname) =>
                 \E j \in (i + 1)..Len(reqlog) : PutsHostname(j, hostname0)
        /\ StepFailed(2) => HostnamePuts = {}

\* ============================== netconf/basic_operations.py: NetconfClient
\* the number of sessions a client opens
MaxSessions == 2

\* what manager.connect, an RPC on an open session and close_session can do
ConnectOutcomes == {"connected", "failed"}
RpcOutcomes == {"reply", "empty-reply", "rpc-error", "exception"}
CloseOutcomes == {"closed", "failed"}

\* get_config(source=, filter_xml=): the arguments callers pass
ConfigSources == {"running", "candidate", "startup"}
Filters == {None, Some(""), Some("<interfaces/>"), Some("<system/>")}

\* the session self.connection stands for is open: set up and not closed
alive == connection # None /\ sessions[connection[1]] = "open"

\* the frame of every NetconfClient method
NetconfFrame == UNCHANGED <<authVars, devVars, lifeVars, setupVars>>

\* NetconfClient.connect()
connect(o) ==
    /\ lastOp' = "connect"
    /\ lastArgs' = <<>>
    /\ lastOutcome' = Some(o)
    /\ netcalls' = <<[call |-> "manager.connect"]>>
    /\ was_open' = alive
    /\ IF o = "connected"
       THEN /\ Len(sessions) < MaxSessions
            /\ sessions' = Append(sessions, "open")
            /\ connection' = Some(Len(sessions) + 1)
            /\ result' = RetTrue
            /\ printed' = "Connected"
       ELSE /\ UNCHANGED <<connection, sessions>>
            /\ result' = RetFalse
            /\ printed' = "Connection failed"
    /\ NetconfFrame

\* NetconfClient.disconnect(): close_session is called whenever
\* self.connection is set, and self.connection stays set afterwards
disconnect(o) ==
    /\ lastOp' = "disconnect"
    /\ lastArgs' = <<>>
    /\ was_open' = alive
    /\ IF connection # None
       THEN /\ lastOutcome' = Some(o)
            /\ netcalls' = <<[call |-> "close_session",
                             session |-> connection[1]]>>
            /\ IF o = "closed"
               THEN /\ sessions' = [sessions EXCEPT ![connection[1]] = "closed"]
                    /\ result' = RetNone
                    /\ printed' = "NETCONF session closed"
               ELSE /\ UNCHANGED sessions
                    /\ result' = Raised("Exception")
                    /\ printed' = ""
       ELSE /\ lastOutcome' = None
            /\ netcalls' = <<>>
            /\ result' = RetNone
            /\ printed' = ""
            /\ UNCHANGED sessions
    /\ UNCHANGED connection
    /\ NetconfFrame

\* "if not self.connection: return None", common to the three readers
NotConnected(op, args) ==
    /\ connection = None
    /\ lastOp' = op
    /\ lastArgs' = args
    /\ lastOutcome' = None
    /\ netcalls' = <<>>
    /\ result' = RetNone
    /\ printed' = "Not connected"
    /\ was_open' = alive
    /\ UNCHANGED <<connection, sessions>>
    /\ NetconfFrame

\* NetconfClient.get_capabilities(): the capabilities the server announced
\* when the session was set up, kept by the connection object
get_capabilities ==
    \/ NotConnected("get_capabilities", <<>>)
    \/ /\ connection # None
       /\ lastOp' = "get_capabilities"
       /\ lastArgs' = <<>>
       /\ lastOutcome' = None
       /\ netcalls' = <<[call |-> "server_capabilities",
                        session |-> connection[1]]>>
       /\ result' = <<"list", "capabilities">>
       /\ printed' = "Retrieved capabilities"
       /\ was_open' = alive
       /\ UNCHANGED <<connection, sessions>>
       /\ NetconfFrame

\* an RPC sent through self.connection: a closed session sends nothing and
\* raises; RPCError and every other exception make the reader return None;
\* a reply is returned as its data_xml, which can be empty
Rpc(op, args, call, o) ==
    LET outcome == IF alive THEN o ELSE "exception"
    IN  /\ connection # None
        /\ lastOp' = op
        /\ lastArgs' = args
        /\ lastOutcome' = Some(outcome)
        /\ netcalls' = <<call>>
        /\ result' = IF outcome = "reply" THEN <<"xml", "data_xml">>
                      ELSE IF outcome = "empty-reply" THEN <<"xml", "">>
                      ELSE RetNone
        /\ printed' = IF outcome \in {"reply", "empty-reply"} THEN "Retrieved"
                       ELSE IF outcome = "rpc-error" THEN "RPC Error"
                       ELSE "Error"
        /\ was_open' = alive
        /\ UNCHANGED <<connection, sessions>>
        /\ NetconfFrame

\* NetconfClient.get_config(source, filter_xml)
get_config(source, filter_xml, o) ==
    \/ NotConnected("get_config", <<source, filter_xml>>)
    \/ Rpc("get_config", <<source, filter_xml>>,
           [call |-> "get_config", session |-> connection[1],
            source |-> source,
            filter |-> IF Truthy(filter_xml) THEN filter_xml ELSE None], o)

\* NetconfClient.get_operational_data(filter_xml)
get_operational_data(filter_xml, o) ==
    \/ NotConnected("get_operational_data", <<filter_xml>>)
    \/ Rpc("get_operational_data", <<filter_xml>>,
           [call |-> "get", session |-> connection[1],
            filter |-> IF Truthy(filter_xml) THEN filter_xml ELSE None], o)

\* NetconfClient, call by call
NetconfNext ==
    \/ \E o \in ConnectOutcomes : connect(o) /\ UNCHANGED demoVars
    \/ \E o \in CloseOutcomes : disconnect(o) /\ UNCHANGED demoVars
    \/ get_capabilities /\ UNCHANGED demoVars
    \/ \E s \in ConfigSources, f \in Filters, o \in RpcOutcomes :
          get_config(s, f, o) /\ UNCHANGED demoVars
    \/ \E f \in Filters, o \in RpcOutcomes :
          get_operational_data(f, o) /\ UNCHANGED demoVars
NetconfSpec == Init /\ [][NetconfNext]_vars

NetconfReaders == {"get_capabilities", "get_config", "get_operational_data"}

\* C27: get_capabilities, get_config and get_operational_data touch the
\* transport only while a session is open, after a successful connect()
\* and before disconnect(); in every other state they return None without
\* issuing any RPC; and disconnect() closes a session at most once.
C27_TransportOnlyWhileSessionOpen ==
    /\ (lastOp \in NetconfReaders /\ ~was_open) =>
          /\ netcalls = <<>>
          /\ result = RetNone
    /\ (lastOp = "disconnect" /\ ~was_open) => netcalls = <<>>

\* -------------------------------- netconf/basic_operations.py: the demos
\* demonstrate_connection, demonstrate_get_config,
\* demonstrate_get_operational, demonstrate_xml_parsing
NetconfDemos == {"connection", "get_config", "get_operational", "xml_parsing"}

interfaces_filter == Some("<interfaces/>")
system_filter == Some("<system/>")
specific_interface_filter == Some("<interfaces><interface/></interfaces>")
stats_filter == Some("<interfaces-state/>")
system_state_filter == Some("<system-state/>")

\* the reads each demo makes between connect() and disconnect(), in order
NetconfDemoReads(d) ==
    CASE d = "connection" -> <<[op |-> "get_capabilities"]>>
      [] d = "get_config" ->
            <<[op |-> "get_config", filter |-> interfaces_filter],
              [op |-> "get_config", filter |-> system_filter],
              [op |-> "get_config", filter |-> specific_interface_filter]>>
      [] d = "get_operational" ->
            <<[op |-> "get_operational_data", filter |-> stats_filter],
              [op |-> "get_operational_data", filter |-> system_state_filter]>>
      [] d = "xml_parsing" ->
            <<[op |-> "get_operational_data", filter |-> stats_filter]>>

\* if client.connect():
AfterConnect(ret) == IF ret = RetTrue THEN "read" ELSE "done"

\* a demo that returns as soon as a read gave nothing
AfterRead_giving_up(d, n, ret) ==
    IF ret = RetNone THEN "done"
    ELSE IF n < Len(NetconfDemoReads(d)) THEN "read" ELSE "disconnect"

\* the statement that follows the n-th read of demo d, which returned ret:
\* the next read, or client.disconnect() after the last one
AfterRead(d, n, ret) ==
    IF n < Len(NetconfDemoReads(d)) THEN "read" ELSE "disconnect"

NetconfDemoConnect ==
    /\ demo_pc = "connect"
    /\ \E o \in ConnectOutcomes : connect(o)
    /\ calls' = Append(calls, Called)
    /\ demo_pc' = AfterConnect(result')
    /\ UNCHANGED demo

NetconfDemoRead ==
    LET n == Len(calls)
        read == NetconfDemoReads(demo)[n]
    IN  /\ demo_pc = "read"
        /\ \/ read.op = "get_capabilities" /\ get_capabilities
           \/ /\ read.op = "get_config"
              /\ \E o \in RpcOutcomes : get_config("running", read.filter, o)
           \/ /\ read.op = "get_operational_data"
              /\ \E o \in RpcOutcomes : get_operational_data(read.filter, o)
        /\ calls' = Append(calls, Called)
        /\ demo_pc' = AfterRead(demo, n, result')
        /\ UNCHANGED demo

NetconfDemoDisconnect ==
    /\ demo_pc = "disconnect"
    /\ \E o \in CloseOutcomes : disconnect(o)
    /\ calls' = Append(calls, Called)
    /\ demo_pc' = IF result'[1] = "raised" THEN "raised" ELSE "done"
    /\ UNCHANGED demo

NetconfDemoNext ==
    \/ NetconfDemoConnect
    \/ NetconfDemoRead
    \/ NetconfDemoDisconnect

NetconfDemoInit ==
    /\ AuthInit
    /\ CallInit
    /\ DeviceIdle
    /\ LifecycleIdle
    /\ SetupIdle
    /\ demo \in NetconfDemos
    /\ demo_pc = "connect"
    /\ calls = <<>>
    /\ NetconfIdle
NetconfDemoSpec == NetconfDemoInit /\ [][NetconfDemoNext]_vars
\* a demo is sequential code: its next call is made once the previous one
\* has returned
NetconfDemoFairSpec == NetconfDemoSpec /\ WF_vars(NetconfDemoNext)

ConnectSucceeded == calls # <<>> /\ calls[1].ret = RetTrue
ConnectFailed == calls # <<>> /\ calls[1].ret # RetTrue
Disconnects == {i \in DOMAIN calls : calls[i].op = "disconnect"}

\* no call after a failed connect, and never a second disconnect or a call
\* after it
NetconfDemoOrder ==
    /\ ConnectFailed => Len(calls) = 1 /\ demo_pc = "done"
    /\ Cardinality(Disconnects) <= 1
    /\ \A i \in Disconnects : i = Len(calls) /\ ConnectSucceeded

\* C28: in each NETCONF demo a successful connect() is eventually followed
\* by exactly one disconnect() before the demo ends, whatever the outcome
\* of the RPCs in between; when connect() fails the demo issues no RPC and
\* no disconnect.
C28_ConnectedDemoDisconnectsOnce ==
    /\ []NetconfDemoOrder
    /\ [](ConnectSucceeded => <>[](Cardinality(Disconnects) = 1))

\* demonstrate_get_config: every read failed, the session was closed
C28_Witness ==
    /\ demo = "get_config"
    /\ demo_pc = "done"
    /\ ConnectSucceeded
    /\ Len(calls) = 5
    /\ \A i \in 2..4 : calls[i].ret = RetNone /\ calls[i].sent # <<>>
    /\ calls[5].op = "disconnect"
    /\ sessions = <<"closed">>

\* ---------------------------------------------- check_python_version
\* v is at least w in lexicographic order
LexAtLeast(v, w) == v[1] > w[1] \/ (v[1] = w[1] /\ v[2] >= w[2])

\* C29: check_python_version returns True if and only if the interpreter's
\* (major, minor) version is at least (3, 8) in lexicographic order, for
\* every pair of bounded non-negative integers.
C29_VersionCheckIsLexicographic ==
    steps # <<>> =>
        /\ steps[1] = "check_python_version"
        /\ outcomes[1] \in {RetTrue, RetFalse}
        /\ outcomes[1] = RetTrue <=> LexAtLeast(python_version, <<3, 8>>)

\* Python 4.0 passes: a greater major with a smaller minor
C29_Witness ==
    /\ python_version = <<4, 0>>
    /\ steps # <<>>
    /\ outcomes[1] = RetTrue

====
